---- MODULE Spec2Model ----
(***************************************************************************)
(* A model of fbad, a distributed docker image build dispatcher:           *)
(*   fbad/server.py   FBADServerProtocol, OutputRelayProtocol              *)
(*   fbad/client.py   FBADClientProtocol                                   *)
(*   fbad/project.py  Project.build_from_zip, get_temp_build_dir, push     *)
(*   fbad/image.py    Image.build, Image.push                              *)
(*                                                                         *)
(* Python byte strings are sequences of byte values.  A frame is the       *)
(* payload the framing layer (twisted's IntNStringReceiver) hands to       *)
(* stringReceived or takes from sendString.                                *)
(***************************************************************************)
EXTENDS Integers, Sequences, FiniteSets, TLC

(***************************************************************************)
(* Bounds of the model.                                                    *)
(***************************************************************************)
\* bytes of file data one build receives
MaxData == 2
\* output chunks the subprocesses of one build emit
MaxChunks == 2

(***************************************************************************)
(* fbad/constants.py                                                       *)
(***************************************************************************)
\* "0.2"
COM_VERSION == <<48, 46, 50>>
AUTH_SEED_LENGTH == 16
\* "\x00"
MESSAGE_PREFIX_CONTINUE == 0
\* "\x01"
MESSAGE_PREFIX_END == 1

(***************************************************************************)
(* FBADServerProtocol.STATE_*                                              *)
(***************************************************************************)
STATE_IGNORE == -1
STATE_WAIT_VERSION == 0
STATE_AUTH == 1
STATE_READY == 2
STATE_FILE_RECEIVE == 4
STATE_BUILDING == 5

(***************************************************************************)
(* Python values that are not byte strings.                                *)
(***************************************************************************)
\* None where a string is expected (factory.password, an attribute not set)
None == <<-1>>
\* a key that a JSON object does not have
Missing == <<-2>>
\* None where an integer is expected (ProcessTerminated.exitCode of a signal)
NoneInt == -1

\* the one-byte replies "O", "E", "F" and the challenge prefix "A"
ReplyO == <<79>>
ReplyE == <<69>>
ReplyF == <<70>>
PrefixA == <<65>>

(***************************************************************************)
(* Helpers on sequences.                                                   *)
(***************************************************************************)
RECURSIVE Flatten(_)
Flatten(ss) == IF ss = <<>> THEN <<>> ELSE Head(ss) \o Flatten(Tail(ss))

Range(s) == {s[i] : i \in 1..Len(s)}

\* s[k:] of Python, k counted from 0
Slice(s, k) == IF k >= Len(s) THEN <<>> ELSE SubSeq(s, k + 1, Len(s))

\* Python's  a in b  for two strings: a is a substring of b
IsSubstring(a, b) ==
    \E k \in 0..(Len(b) - Len(a)) : SubSeq(b, k + 1, k + Len(a)) = a

(***************************************************************************)
(* hashlib.sha256(x).digest(): a 32 byte digest of x.  The digest is       *)
(* computed by a stand-in mixing function; HashPoolInjective states that   *)
(* it has no collision on the inputs of the model, which is what the       *)
(* program relies on SHA-256 for.                                          *)
(***************************************************************************)
DIGEST_LENGTH == 32

RECURSIVE Mix(_, _, _)
Mix(x, j, i) ==
    IF j > Len(x) THEN Len(x)
    ELSE ((i + j) * (x[j] + 1) + 31 * Mix(x, j + 1, i)) % 256

sha256(x) == [i \in 1..DIGEST_LENGTH |-> Mix(x, 1, i)]

(***************************************************************************)
(* The inputs of the model.                                                *)
(***************************************************************************)
\* "pw" and "px"
PW == <<112, 119>>
PX == <<112, 120>>
ServerPasswords == {None, PW}
ClientPasswords == {None, PW, PX}

\* os.urandom(n): n bytes; the model draws them all equal, from RandomBytes
RandomBytes == {0, 7}
get_random_bytes(n) == {[i \in 1..n |-> b] : b \in RandomBytes}

(***************************************************************************)
(* Image and Project (fbad/image.py, fbad/project.py).  An image is        *)
(* [name, tag, preexec_command], preexec_command None or a command; a      *)
(* project is [name, images].                                              *)
(***************************************************************************)
Img(name, tag, pre) == [name |-> name, tag |-> tag, preexec_command |-> pre]

\* the image names "a", "ab" and "c", and a preexec command
NameA == <<97>>
NameAB == <<97, 98>>
NameC == <<99>>
PreCmd == <<109>>

\* project "p" without images, with one image, with two images
P0 == [name |-> <<112>>, images |-> <<>>]
P1 == [name |-> <<112>>, images |-> <<Img(NameA, NameA, None)>>]
P2 == [name |-> <<112>>,
       images |-> <<Img(NameA, NameA, PreCmd), Img(NameAB, NameAB, None)>>]
\* project "p" whose second image has the tag "{x}"
PT == [name |-> <<112>>,
       images |-> <<Img(NameA, NameA, None), Img(NameAB, <<123, 120, 125>>, None)>>]
ProjectPool == {P0, P1, P2, PT}

\* Image.dumpus: the image as a JSON string
Image_dumpus(im) ==
    <<123>> \o im.name \o <<44>> \o im.tag \o <<44>>
        \o (IF im.preexec_command = None THEN <<110>>
            ELSE <<91>> \o im.preexec_command \o <<93>>)
        \o <<125>>

\* Project.dumps: the project as a JSON string that nests the images' strings
Project_dumps(p) ==
    <<123>> \o p.name \o <<91>>
        \o Flatten([i \in 1..Len(p.images) |-> Image_dumpus(p.images[i])])
        \o <<93, 125>>

\* Project.loads: the project of a string dumps() returned; anything else raises
ProjectTexts == {<<Project_dumps(p), p>> : p \in ProjectPool}
Project_loads(s) ==
    IF \E e \in ProjectTexts : e[1] = s
    THEN [ok |-> TRUE, value |-> (CHOOSE e \in ProjectTexts : e[1] = s)[2]]
    ELSE [ok |-> FALSE, value |-> P0]

(***************************************************************************)
(* The value of the "only" field: null, a string, a list of strings or a   *)
(* number.  t is the shape, s the string, l the list, n the number.        *)
(***************************************************************************)
OnlyAbsent == [t |-> "absent", s |-> <<>>, l |-> <<>>, n |-> 0]
OnlyNull == [t |-> "null", s |-> <<>>, l |-> <<>>, n |-> 0]
OnlyStr(x) == [t |-> "str", s |-> x, l |-> <<>>, n |-> 0]
OnlyList(x) == [t |-> "list", s |-> <<>>, l |-> x, n |-> 0]
OnlyInt(x) == [t |-> "int", s |-> <<>>, l |-> <<>>, n |-> x]

(***************************************************************************)
(* JSON objects of the wire: every key the two peers use, Missing when the *)
(* object does not have it.  push is <<1>> (true) or <<0>> (false).        *)
(***************************************************************************)
EmptyObj ==
    [command |-> Missing, project |-> Missing, only |-> OnlyAbsent,
     push |-> Missing, type |-> Missing, message |-> Missing,
     exitcodes |-> Missing]

\* "build", "stop", "msg", "finish"
StrBuild == <<98, 117, 105, 108, 100>>
StrStop == <<115, 116, 111, 112>>
StrMsg == <<109, 115, 103>>
StrFinish == <<102, 105, 110, 105, 115, 104>>
JTrue == <<1>>
JFalse == <<0>>

BuildCmd(p, only, push) ==
    [EmptyObj EXCEPT !.command = StrBuild, !.project = Project_dumps(p),
                     !.only = only, !.push = push]

MsgObj(m) == [EmptyObj EXCEPT !.type = StrMsg, !.message = m]

FinishObj(ec) == [EmptyObj EXCEPT !.type = StrFinish, !.exitcodes = ec]

JStr(s) == <<34>> \o s \o <<34>>
JInt(n) == IF n = NoneInt THEN <<110>> ELSE <<48 + n>>
JOnly(o) ==
    CASE o.t = "absent" -> <<>>
      [] o.t = "null" -> <<111, 110>>
      [] o.t = "str" -> <<111>> \o JStr(o.s)
      [] o.t = "list" ->
            <<111, 91>> \o Flatten([i \in 1..Len(o.l) |-> JStr(o.l[i]) \o <<44>>])
                \o <<93>>
      [] o.t = "int" -> <<111>> \o JInt(o.n)
JField(key, present, text) == IF present THEN <<key>> \o text ELSE <<>>

\* json.dumps(obj).encode("UTF-8")
json_dumps(d) ==
    <<123>>
        \o JField(99, d.command # Missing, JStr(d.command))
        \o JField(112, d.project # Missing, JStr(d.project))
        \o JOnly(d.only)
        \o JField(117, d.push # Missing, IF d.push = JTrue THEN <<116>> ELSE <<102>>)
        \o JField(116, d.type # Missing, JStr(d.type))
        \o JField(109, d.message # Missing, JStr(d.message))
        \o JField(101, d.exitcodes # Missing,
                  <<91>> \o Flatten([i \in 1..Len(d.exitcodes) |->
                                        JInt(d.exitcodes[i]) \o <<44>>]) \o <<93>>)
        \o <<125>>

\* the output chunks of the subprocesses of a build: "h", then "i", ...
Chunk(k) == <<103 + k>>
Chunks == {Chunk(k) : k \in 1..MaxChunks}

\* the JSON objects of the model
CmdObjs ==
    { BuildCmd(P1, OnlyNull, JFalse),
      BuildCmd(P2, OnlyNull, JFalse),
      BuildCmd(P1, OnlyNull, JTrue),
      BuildCmd(P2, OnlyList(<<NameAB>>), JFalse),
      BuildCmd(P2, OnlyStr(NameAB), JFalse),
      BuildCmd(P2, OnlyList(<<NameC>>), JTrue),
      [BuildCmd(P0, OnlyAbsent, JFalse) EXCEPT !.push = Missing],
      BuildCmd(P1, OnlyInt(3), JFalse),
      [EmptyObj EXCEPT !.command = StrStop],
      [EmptyObj EXCEPT !.project = Project_dumps(P1)],
      [EmptyObj EXCEPT !.command = StrBuild],
      [EmptyObj EXCEPT !.command = StrBuild, !.project = <<120>>] }
\* build commands that ask for a push, and a build of the project PT
PushCmdObjs ==
    { BuildCmd(P1, OnlyNull, JTrue),
      BuildCmd(P2, OnlyNull, JTrue),
      BuildCmd(P2, OnlyList(<<NameAB>>), JTrue),
      BuildCmd(P2, OnlyList(<<NameC>>), JTrue),
      BuildCmd(P2, OnlyNull, JFalse),
      BuildCmd(PT, OnlyNull, JFalse) }
\* the exit-code vectors of a project of the model
ExitCodes == {0, 1, NoneInt}
ExitVectors ==
    {<<>>} \cup {<<a>> : a \in ExitCodes} \cup {<<a, b>> : a, b \in ExitCodes}
\* objects a server may send besides the msg and finish frames of a build:
\* a msg without message, a finish without exitcodes, an unknown type
OddReplyObjs ==
    { [EmptyObj EXCEPT !.type = StrMsg], [EmptyObj EXCEPT !.type = StrFinish],
      [EmptyObj EXCEPT !.type = StrStop] }
JsonObjs ==
    CmdObjs \cup {MsgObj(c) : c \in Chunks} \cup {FinishObj(v) : v \in ExitVectors}
        \cup OddReplyObjs \cup PushCmdObjs

\* json.loads(text): the object of a text json.dumps writes; anything else raises
JsonTexts == {<<json_dumps(d), d>> : d \in JsonObjs}
json_loads(b) ==
    IF \E e \in JsonTexts : e[1] = b
    THEN [ok |-> TRUE, value |-> (CHOOSE e \in JsonTexts : e[1] = b)[2]]
    ELSE [ok |-> FALSE, value |-> EmptyObj]

\* the texts have one object each, the digests one input each
JsonPoolInjective ==
    \A d, e \in JsonObjs : json_dumps(d) = json_dumps(e) => d = e
HashInputs == {c \o p : c \in get_random_bytes(AUTH_SEED_LENGTH), p \in {PW, PX}}
HashPoolInjective ==
    \A x, y \in HashInputs : sha256(x) = sha256(y) => x = y

(***************************************************************************)
(* The frames a peer of the server may send.                               *)
(***************************************************************************)
\* "0.1"
OldVersion == <<48, 46, 49>>
Digests == {sha256(x) : x \in HashInputs}
BentDigests ==
    {[d EXCEPT ![1] = (@ + 1) % 256] :
        d \in {sha256(c \o PW) : c \in get_random_bytes(AUTH_SEED_LENGTH)}}
FileFrames ==
    { <<>>, <<MESSAGE_PREFIX_CONTINUE, 80>>, <<MESSAGE_PREFIX_END>>,
      <<MESSAGE_PREFIX_END, 75>>, <<2, 80>> }
FramePool ==
    {COM_VERSION, OldVersion} \cup Digests \cup BentDigests
        \cup {json_dumps(d) : d \in CmdObjs} \cup {<<123>>} \cup FileFrames

(***************************************************************************)
(* The state of one server connection.                                     *)
(***************************************************************************)
VARIABLES
    password,   \* factory.password: None or the password
    state,      \* self.state
    challenge,  \* self.challenge: None until handle_version draws it
    project,    \* self.project
    outf,       \* self.outf: [st, data], st "none", "open" or "closed"
    recv_d,     \* self.recv_d: "none", "pending" or "fired"
    srare,      \* self.srare, the attribute handle_command sets at line 120
    gen,        \* the frame of handle_command's generator:
                \*   [pc, only, do_push, bi, exitcodes]
    transport,  \* "open", "closing" (loseConnection called) or "lost"
    sent,       \* the frames handed to sendString, in order, since the
                \*   connection was made or the last command was accepted
    dirs,       \* the scratch directories that exist: "tp" (handle_command's),
                \*   "tbp" (build_from_zip's)
    proc,       \* the running subprocess: [kind, image, nout]
    zipin,      \* the content of the zip file build_from_zip_path was called
                \*   on for this command, None before the call
    violated,   \* history: <<>>, or <<s>> once handle_protocol_violation has
                \*   been called, s the state it was last called in
    tick,       \* history: flips when a frame is delivered
    inframe,    \* history: the frame delivered last, when it was delivered in
                \*   WAIT_VERSION or AUTH (None otherwise)
    inkind,     \* history: the shape of the frame delivered last: "empty",
                \*   "continue" (first byte 0x00), "end" (0x01), "other"
    payloads,   \* history: the payloads of the file frames of this build
    mark,       \* history: Len(sent) when the terminator frame was processed
    emitted,    \* history: the chunks the subprocesses of this build emitted
    results     \* history: [image, code] of each image build that ended

svars ==
    <<password, state, challenge, project, outf, recv_d, srare, gen, transport,
      sent, dirs, proc, zipin, violated, tick, inframe, inkind, payloads,
      mark, emitted, results>>

NoGen == [pc |-> "none", only |-> OnlyNull, do_push |-> FALSE, bi |-> 0,
          exitcodes |-> <<>>]
NoProc == [kind |-> "none", image |-> 0, nout |-> 0]
NoFile == [st |-> "none", data |-> <<>>]

\* the program state as one value; raised: an exception left stringReceived
World ==
    [password |-> password, state |-> state, challenge |-> challenge,
     project |-> project, outf |-> outf, recv_d |-> recv_d, srare |-> srare,
     gen |-> gen, transport |-> transport, sent |-> sent, dirs |-> dirs,
     proc |-> proc, zipin |-> zipin, violated |-> violated, raised |-> FALSE]

\* the program state after a handler: an exception that leaves stringReceived
\* reaches the reactor, which drops the connection
Becomes(w) ==
    /\ password' = w.password
    /\ state' = w.state
    /\ challenge' = w.challenge
    /\ project' = w.project
    /\ outf' = w.outf
    /\ recv_d' = w.recv_d
    /\ srare' = w.srare
    /\ gen' = w.gen
    /\ transport' = IF w.raised THEN "lost" ELSE w.transport
    /\ sent' = w.sent
    /\ dirs' = w.dirs
    /\ proc' = w.proc
    /\ zipin' = w.zipin
    /\ violated' = w.violated

(***************************************************************************)
(* FBADServerProtocol (fbad/server.py).  A handler maps the program state  *)
(* before it to the program state after it.                                *)
(***************************************************************************)
\* IntNStringReceiver.sendString
sendString(w, s) == [w EXCEPT !.sent = Append(@, s)]

\* transport.loseConnection(): frames already read are still delivered
loseConnection(w) ==
    [w EXCEPT !.transport = IF @ = "open" THEN "closing" ELSE @]

\* an exception that propagates out of stringReceived
Raise(w) == [w EXCEPT !.raised = TRUE]

handle_version_open(w, msg, rnd) ==
    IF msg # COM_VERSION
    THEN loseConnection([sendString(w, ReplyE) EXCEPT !.state = STATE_IGNORE])
    ELSE [sendString(w, ReplyO) EXCEPT !.state = STATE_READY]

handle_version(w, msg, rnd) ==
    IF msg # COM_VERSION
    THEN loseConnection([sendString(w, ReplyE) EXCEPT !.state = STATE_IGNORE])
    ELSE IF w.password # None
         THEN [sendString([w EXCEPT !.challenge = rnd], PrefixA \o rnd)
                  EXCEPT !.state = STATE_AUTH]
         ELSE [sendString(w, ReplyO) EXCEPT !.state = STATE_READY]

handle_auth_nochallenge(w, msg) ==
    LET res == sha256(w.password)
    IN  IF res = msg
        THEN [sendString(w, ReplyO) EXCEPT !.state = STATE_READY]
        ELSE loseConnection([sendString(w, ReplyF) EXCEPT !.state = STATE_IGNORE])

handle_auth_stays(w, msg) ==
    LET res == sha256(w.challenge \o w.password)
    IN  IF res = msg
        THEN [sendString(w, ReplyO) EXCEPT !.state = STATE_READY]
        ELSE loseConnection(sendString(w, ReplyF))

handle_auth(w, msg) ==
    LET res == sha256(w.challenge \o w.password)
    IN  IF res = msg
        THEN [sendString(w, ReplyO) EXCEPT !.state = STATE_READY]
        ELSE loseConnection([sendString(w, ReplyF) EXCEPT !.state = STATE_IGNORE])

handle_protocol_violation(w) ==
    loseConnection([w EXCEPT !.violated = <<w.state>>])

send_message_front(w, msg) ==
    [w EXCEPT !.sent = <<json_dumps(MsgObj(msg))>> \o @]

send_message(w, msg) == sendString(w, json_dumps(MsgObj(msg)))

send_exitcodes(w, exitcodes) == sendString(w, json_dumps(FinishObj(exitcodes)))

(***************************************************************************)
(* Image.format_tag (fbad/image.py): s.format(system=, node=, release=,    *)
(* arch=) with the values of platform.uname().  A replacement field that   *)
(* names another key, or a brace without its partner, raises.              *)
(***************************************************************************)
\* "system", "node", "release", "arch"
KeySystem == <<115, 121, 115, 116, 101, 109>>
KeyNode == <<110, 111, 100, 101>>
KeyRelease == <<114, 101, 108, 101, 97, 115, 101>>
KeyArch == <<97, 114, 99, 104>>
\* the build host: "L", "n", "6", "x"
UnameInfo(key) ==
    CASE key = KeySystem -> <<76>>
      [] key = KeyNode -> <<110>>
      [] key = KeyRelease -> <<54>>
      [] key = KeyArch -> <<120>>
      [] OTHER -> None

FirstIndex(s, b) ==
    IF b \in Range(s) THEN CHOOSE i \in 1..Len(s) :
                               s[i] = b /\ \A j \in 1..(i - 1) : s[j] # b
    ELSE 0

RECURSIVE format_tag(_)
format_tag(s) ==
    IF s = <<>> THEN [ok |-> TRUE, value |-> <<>>]
    ELSE IF s[1] = 123
    THEN LET close == FirstIndex(s, 125)
             key == SubSeq(s, 2, close - 1)
             rest == format_tag(Slice(s, close))
         IN  IF close = 0 \/ UnameInfo(key) = None \/ ~rest.ok
             THEN [ok |-> FALSE, value |-> <<>>]
             ELSE [ok |-> TRUE, value |-> UnameInfo(key) \o rest.value]
    ELSE IF s[1] = 125 THEN [ok |-> FALSE, value |-> <<>>]
    ELSE LET rest == format_tag(Tail(s))
         IN  [ok |-> rest.ok, value |-> <<s[1]>> \o rest.value]

(***************************************************************************)
(* handle_command is a generator (defer.inlineCallbacks): it runs until it *)
(* yields a Deferred that has not fired, and is resumed when that fires.   *)
(* gen.pc is where it is suspended:                                        *)
(*   "recv"     at  yield self.recv_d                       (server.py:119)*)
(*   "preexec"  in Image.build at the preexec command       (image.py:77)  *)
(*   "build"    in Image.build at docker build              (image.py:87)  *)
(*   "push"     in Image.push at docker push                (image.py:145) *)
(*   "done"     it returned; "failed" an exception ended it: inlineCallbacks*)
(*              turns that into the failure of a Deferred nobody reads.    *)
(***************************************************************************)
\* an exception ends the generator; the with blocks it leaves remove their
\* scratch directories (Project.get_temp_build_dir, project.py:167-170)
gen_fail(w) == [w EXCEPT !.gen.pc = "failed", !.dirs = {}]

\* shutils.run_command / Image._run_command with a protocolfactory:
\* reactor.spawnProcess, and the caller waits for protocol.d
spawnProcess(w, kind, i) ==
    [w EXCEPT !.proc = [kind |-> kind, image |-> i, nout |-> 0],
              !.gen.pc = kind, !.gen.bi = i]

\* image.name not in only  (project.py:119-122, 185-188)
only_raises(only) == only.t = "int"
name_in_only(name, only) ==
    CASE only.t = "str" -> IsSubstring(name, only.s)
      [] only.t = "list" -> name \in Range(only.l)
      [] OTHER -> FALSE

\* handle_command after the push: send the finish frame, leave the with block
command_finish(w) ==
    [send_exitcodes(w, w.gen.exitcodes)
        EXCEPT !.dirs = @ \ {"tp"}, !.state = STATE_READY, !.gen.pc = "done"]

\* Image.push: docker push of the formatted tag
Image_push(w, i) ==
    IF ~format_tag(w.project.images[i].tag).ok THEN gen_fail(w)
    ELSE spawnProcess(w, "push", i)

\* Project.push that leaves out the only filter
RECURSIVE Project_push_all(_, _)
Project_push_all(w, i) ==
    IF i > Len(w.project.images) THEN command_finish(w)
    ELSE Image_push(w, i)

\* Project.push, from image i on
RECURSIVE Project_push(_, _)
Project_push(w, i) ==
    IF i > Len(w.project.images) THEN command_finish(w)
    ELSE IF w.gen.only.t # "null" /\ only_raises(w.gen.only) THEN gen_fail(w)
    ELSE IF w.gen.only.t # "null"
            /\ ~name_in_only(w.project.images[i].name, w.gen.only)
    THEN Project_push(w, i + 1)
    ELSE Image_push(w, i)

\* build_from_zip returned: its directory is removed, then the push
after_build(w) ==
    LET w1 == [w EXCEPT !.dirs = @ \ {"tbp"}]
    IN  IF w1.gen.do_push THEN Project_push(w1, 1) ELSE command_finish(w1)

\* Image.build up to its first subprocess
Image_build(w, i) ==
    LET image == w.project.images[i]
    IN  IF ~format_tag(image.tag).ok THEN gen_fail(w)
        ELSE IF image.preexec_command # None THEN spawnProcess(w, "preexec", i)
        ELSE spawnProcess(w, "build", i)

build_from_zip_nofilter(w, i) ==
    IF i > Len(w.project.images) THEN after_build(w) ELSE Image_build(w, i)

\* the loop of Project.build_from_zip, from image i on
RECURSIVE build_from_zip(_, _)
build_from_zip(w, i) ==
    IF i > Len(w.project.images) THEN after_build(w)
    ELSE IF w.gen.only.t # "null" /\ only_raises(w.gen.only) THEN gen_fail(w)
    ELSE IF w.gen.only.t # "null"
            /\ ~name_in_only(w.project.images[i].name, w.gen.only)
    THEN build_from_zip(w, i + 1)
    ELSE Image_build(w, i)

\* exitcodes.append(ec)  (project.py:125)
exitcodes_append(w, ec) == [w EXCEPT !.gen.exitcodes = Append(@, ec)]

\* Image.build that goes on to docker build whatever the preexec command
\* returned
resume_anyway(w, ec) ==
    CASE w.gen.pc = "preexec" -> spawnProcess(w, "build", w.gen.bi)
      [] w.gen.pc = "build" ->
            build_from_zip(exitcodes_append(w, ec), w.gen.bi + 1)
      [] w.gen.pc = "push" -> Project_push(w, w.gen.bi + 1)
      [] OTHER -> w

\* the generator resumed with the exit code of the subprocess it waited for
resume(w, ec) ==
    CASE w.gen.pc = "preexec" ->
            IF ec # 0 THEN build_from_zip(exitcodes_append(w, ec), w.gen.bi + 1)
            ELSE spawnProcess(w, "build", w.gen.bi)
      [] w.gen.pc = "build" ->
            build_from_zip(exitcodes_append(w, ec), w.gen.bi + 1)
      [] w.gen.pc = "push" -> Project_push(w, w.gen.bi + 1)
      [] OTHER -> w

\* handle_command resumed by recv_d: close the file, open it as a zip and
\* build.  zipok: zipfile accepts the content (never an empty file).
build_from_zip_path(w, zipok) ==
    LET w1 == [w EXCEPT !.zipin = w.outf.data]
    IN  IF ~zipok \/ w.outf.data = <<>> THEN gen_fail(w1)
        ELSE build_from_zip([w1 EXCEPT !.dirs = @ \cup {"tbp"}], 1)

after_receive(w, zipok) ==
    build_from_zip_path(
        [w EXCEPT !.srare = STATE_BUILDING, !.outf.st = "closed"], zipok)

\* self.recv_d.callback(None): a Deferred fires once, a second callback raises
recv_d_callback(w, zipok) ==
    IF w.recv_d # "pending" THEN Raise(w)
    ELSE after_receive([w EXCEPT !.recv_d = "fired"], zipok)

\* self.outf.write(data): writing to a closed file raises
outf_write(w, data) ==
    IF w.outf.st # "open" THEN Raise(w)
    ELSE [w EXCEPT !.outf.data = @ \o data]

\* json.loads, info["command"], info["project"] and Project.loads raise on
\* a text or an object they cannot take: the generator ends there
handle_command(w, msg) ==
    LET parsed == json_loads(msg)
        info == parsed.value
        w1 == [w EXCEPT !.state = STATE_BUILDING]
        loaded == Project_loads(info.project)
    IN  IF ~parsed.ok \/ info.command = Missing THEN w
        ELSE IF info.command # StrBuild THEN handle_protocol_violation(w)
        ELSE IF info.project = Missing \/ ~loaded.ok
        THEN [w1 EXCEPT !.gen = [NoGen EXCEPT !.pc = "failed"]]
        ELSE [w1 EXCEPT
                !.project = loaded.value,
                !.zipin = None,
                !.recv_d = "pending",
                !.dirs = @ \cup {"tp"},
                !.outf = [st |-> "open", data |-> <<>>],
                !.state = STATE_FILE_RECEIVE,
                !.gen = [pc |-> "recv",
                         only |-> IF info.only.t = "absent" THEN OnlyNull
                                  ELSE info.only,
                         do_push |-> info.push = JTrue,
                         bi |-> 0, exitcodes |-> <<>>]]

handle_file_data_noend(w, msg, zipok) ==
    IF Len(msg) = 0 THEN w
    ELSE IF msg[1] = MESSAGE_PREFIX_CONTINUE THEN outf_write(w, Slice(msg, 1))
    ELSE IF msg[1] = MESSAGE_PREFIX_END THEN recv_d_callback(w, zipok)
    ELSE handle_protocol_violation(w)

handle_file_data_lenient(w, msg, zipok) ==
    IF Len(msg) = 0 THEN w
    ELSE IF msg[1] = MESSAGE_PREFIX_CONTINUE THEN outf_write(w, Slice(msg, 1))
    ELSE IF msg[1] = MESSAGE_PREFIX_END
    THEN recv_d_callback(outf_write(w, Slice(msg, 1)), zipok)
    ELSE w

handle_file_data(w, msg, zipok) ==
    LET prefix == msg[1]
        data == Slice(msg, 1)
        w1 == IF Len(data) > 0 THEN outf_write(w, data) ELSE w
    IN  IF Len(msg) = 0 THEN w
        ELSE IF prefix = MESSAGE_PREFIX_CONTINUE THEN outf_write(w, data)
        ELSE IF prefix = MESSAGE_PREFIX_END
        THEN IF w1.raised THEN w1 ELSE recv_d_callback(w1, zipok)
        ELSE handle_protocol_violation(w)

\* stringReceived without the test for STATE_IGNORE: the frame goes to
\* handle_command
stringReceived_noignore(w, msg, rnd, zipok) ==
    IF w.state = STATE_WAIT_VERSION THEN handle_version(w, msg, rnd)
    ELSE IF w.state = STATE_AUTH THEN handle_auth(w, msg)
    ELSE IF w.state \in {STATE_READY, STATE_IGNORE} THEN handle_command(w, msg)
    ELSE IF w.state = STATE_FILE_RECEIVE THEN handle_file_data(w, msg, zipok)
    ELSE handle_protocol_violation(w)

stringReceived(w, msg, rnd, zipok) ==
    IF w.state = STATE_IGNORE THEN w
    ELSE IF w.state = STATE_WAIT_VERSION THEN handle_version(w, msg, rnd)
    ELSE IF w.state = STATE_AUTH THEN handle_auth(w, msg)
    ELSE IF w.state = STATE_READY THEN handle_command(w, msg)
    ELSE IF w.state = STATE_FILE_RECEIVE THEN handle_file_data(w, msg, zipok)
    ELSE handle_protocol_violation(w)

(***************************************************************************)
(* OutputRelayProtocol (fbad/server.py)                                    *)
(***************************************************************************)
\* outReceived, errReceived
on_data_received(w, data) == send_message(w, data)

\* the status of an ended process: ProcessDone, ProcessTerminated with an
\* exit code (NoneInt when a signal killed it), or anything else
StatusDone == [kind |-> "done", exitCode |-> 0]
StatusTerminated(c) == [kind |-> "terminated", exitCode |-> c]
StatusOther == [kind |-> "other", exitCode |-> 0]
Statuses == {StatusDone, StatusTerminated(1), StatusTerminated(NoneInt),
             StatusOther}

\* processEnded: the exit code fires self.d, which resumes the generator;
\* on another status it raises and self.d never fires
processEnded(w, status) ==
    LET w1 == [w EXCEPT !.proc = NoProc]
    IN  IF status.kind = "done" THEN resume(w1, 0)
        ELSE IF status.kind = "terminated" THEN resume(w1, status.exitCode)
        ELSE w1

(***************************************************************************)
(* One server connection whose peer may send any frame of FramePool.       *)
(***************************************************************************)
(***************************************************************************)
(* FBADClientProtocol (fbad/client.py) and its caller _run_remote_build    *)
(* (fbad/project.py).                                                      *)
(***************************************************************************)
CLIENT_STATE_IGNORE == -2
CLIENT_STATE_ERROR == -1
CLIENT_STATE_WAIT_VERSION_RESPONSE == 0
CLIENT_STATE_WAIT_AUTH_RESPONSE == 1
CLIENT_STATE_READY == 2
CLIENT_STATE_BUILDING == 3
READ_CHUNK_SIZE == 8192
\* self.state before connectionMade: the attribute does not exist
CLIENT_STATE_UNSET == -3

VARIABLES
    client,     \* the client protocol and its caller:
                \*   password  self.password
                \*   state     self.state
                \*   d         self.d: "pending", "ready" (fired with the
                \*             protocol) or the name of the error it failed with
                \*   out       the strings written to self.out
                \*   build_d   self.build_d: "none", "pending" or "fired"
                \*   transport "open", "closing" or "lost"
                \*   sent      the frames handed to sendString, in order
                \*   pc        remote_build's generator: "none", "read" (in
                \*             send_file), "wait" (at yield build_d), "done"
                \*   fin       the part of the zip file not read yet
                \*   exitcodes the result of remote_build, None before
                \*   value     the exit codes build_d fired with, None before
                \*   call      the outcome of the last remote_build call:
                \*             "none", "running", "done" or the error it
                \*             failed with
                \*   history: calltick flips at a remote_build call; tick
                \*   flips when a frame is delivered and frame is that
                \*   frame; arrived holds the
                \*   messages of the msg frames delivered in BUILDING; zip is
                \*   the file of the last call and base the number of frames
                \*   sent before it; nbuilds counts the calls accepted
    sread,      \* the number of frames of the client the server has received
    cread,      \* the number of frames of the server the client has received
    co,         \* the dispatch coordinator of project.py: its remote builds
    link,       \* one direction of a connection below the protocols: the
                \*   bytes written, the receiver's buffer, the strings delivered
    twin        \* two runs of the server protocol, a and b, and two runs of
                \*   the client protocol, ca and cb, that get the same input

vars == <<svars, client, sread, cread, co, link, twin>>

\* no dispatch was started: the coordinator before Project.main runs
NoDispatch ==
    [pc |-> "idle", mode |-> "none", hosts |-> 0, project |-> <<>>,
     only |-> <<>>, ds |-> <<>>, order |-> <<>>, exitcodes |-> <<>>,
     out |-> <<>>, status |-> -1]

\* no pair of connections is watched
NoTwin == [a |-> <<>>, b |-> <<>>, ca |-> <<>>, cb |-> <<>>, n |-> 0]

\* a connection nothing was written to
NoLink ==
    [wire |-> <<>>, unprocessed |-> <<>>, handed |-> <<>>, raised |-> <<>>,
     delivered |-> <<>>, transport |-> "open"]

\* no client: the server is driven by the frames of FramePool
NoClient ==
    [password |-> None, state |-> CLIENT_STATE_IGNORE, d |-> "none",
     out |-> <<>>, build_d |-> "none", transport |-> "lost", sent |-> <<>>,
     pc |-> "none", fin |-> <<>>, exitcodes |-> None, raised |-> FALSE,
     value |-> None, call |-> "none", calltick |-> 0, tick |-> 0,
     frame |-> None, arrived |-> <<>>,
     zip |-> <<>>, base |-> 0, nbuilds |-> 0]

\* __init__ (client.py:32-35), the connection not made yet
UnconnectedClient(pw) ==
    [NoClient EXCEPT !.password = pw, !.state = CLIENT_STATE_UNSET,
                     !.d = "pending", !.transport = "connecting"]

\* connectionMade and send_version (client.py:37-48)
connectionMade(c) ==
    [c EXCEPT !.transport = "open", !.sent = Append(@, COM_VERSION),
              !.state = CLIENT_STATE_WAIT_VERSION_RESPONSE]

\* a client whose connection was made
NewClient(pw) == connectionMade(UnconnectedClient(pw))

Client_sendString(c, s) == [c EXCEPT !.sent = Append(@, s)]
Client_loseConnection(c) ==
    [c EXCEPT !.transport = IF @ = "open" THEN "closing" ELSE @]
Client_Raise(c) == [c EXCEPT !.raised = TRUE]

\* an exception that leaves stringReceived: the reactor drops the connection
Client_Settle(c) ==
    [c EXCEPT !.transport = IF c.raised THEN "lost" ELSE @, !.raised = FALSE]

\* self.d.callback(self) and self.d.errback(error): a Deferred fires once
d_callback(c) ==
    IF c.d = "pending" THEN [c EXCEPT !.d = "ready"] ELSE Client_Raise(c)
d_errback(c, error) ==
    IF c.d = "pending" THEN [c EXCEPT !.d = error] ELSE Client_Raise(c)

\* handle_protocol_violation (client.py:130-136)
Client_handle_protocol_violation(c) == Client_loseConnection(c)

\* handle_ready (client.py:90-96)
handle_ready(c) == d_callback([c EXCEPT !.state = CLIENT_STATE_READY])

handle_auth_challenge_trusting(c, chal) ==
    IF c.password # None
    THEN handle_ready(Client_sendString(c, sha256(chal \o c.password)))
    ELSE d_errback(c, "PasswordRequired")

\* handle_auth_challenge (client.py:98-110)
handle_auth_challenge(c, chal) ==
    IF c.password # None
    THEN Client_sendString([c EXCEPT !.state = CLIENT_STATE_WAIT_AUTH_RESPONSE],
                           sha256(chal \o c.password))
    ELSE d_errback(c, "PasswordRequired")

\* handle_version_response (client.py:73-88); handle_version_mismatch is not
\* an attribute of the protocol: the call raises AttributeError
handle_version_response(c, msg) ==
    IF msg = ReplyE THEN Client_Raise(c)
    ELSE IF msg = ReplyO THEN handle_ready(c)
    ELSE IF Len(msg) >= 1 /\ msg[1] = PrefixA[1]
    THEN IF Len(msg) < 2 THEN Client_handle_protocol_violation(c)
         ELSE handle_auth_challenge(c, Slice(msg, 1))
    ELSE c

\* handle_auth_response (client.py:112-128)
handle_auth_response(c, msg) ==
    IF msg = ReplyO THEN d_callback([c EXCEPT !.state = CLIENT_STATE_READY])
    ELSE IF msg = ReplyF
    THEN d_errback(Client_loseConnection([c EXCEPT !.state = CLIENT_STATE_ERROR]),
                   "InvalidPassword")
    ELSE Client_handle_protocol_violation(c)

\* the caller after remote_build returned (project.py:429-431):
\* client.disconnect()
after_remote_build(c) == Client_loseConnection(c)

\* remote_build resumed at yield self.build_d (client.py:195-197), then its
\* caller
remote_build_returns(c) ==
    after_remote_build([c EXCEPT !.state = CLIENT_STATE_READY, !.pc = "done",
                                 !.exitcodes = c.value, !.call = "done"])

\* self.build_d.callback(exitcodes): it resumes remote_build when that
\* waits for it; a Deferred fires once
build_d_callback(c, exitcodes) ==
    LET c1 == [c EXCEPT !.build_d = "fired", !.value = exitcodes]
    IN  IF c.build_d # "pending" THEN Client_Raise(c)
        ELSE IF c.pc = "wait" THEN remote_build_returns(c1)
        ELSE c1

\* "<No message body received>", abbreviated
NoBody == <<60, 62>>

handle_build_message_twice(c, msg) ==
    LET parsed == json_loads(msg)
        data == parsed.value
    IN  IF ~parsed.ok \/ data.type = Missing THEN Client_Raise(c)
        ELSE IF data.type = StrMsg
        THEN [c EXCEPT !.out = @ \o <<data.message, data.message>>]
        ELSE IF data.type = StrFinish
        THEN build_d_callback(c, IF data.exitcodes = Missing THEN <<>>
                                 ELSE data.exitcodes)
        ELSE Client_handle_protocol_violation(c)

\* handle_build_message (client.py:138-154)
handle_build_message(c, msg) ==
    LET parsed == json_loads(msg)
        data == parsed.value
    IN  IF ~parsed.ok \/ data.type = Missing THEN Client_Raise(c)
        ELSE IF data.type = StrMsg
        THEN [c EXCEPT !.out = Append(@, IF data.message = Missing THEN NoBody
                                         ELSE data.message)]
        ELSE IF data.type = StrFinish
        THEN build_d_callback(c, IF data.exitcodes = Missing THEN <<>>
                                 ELSE data.exitcodes)
        ELSE Client_handle_protocol_violation(c)

\* stringReceived (client.py:50-71)
Client_stringReceived(c, msg) ==
    IF c.state = CLIENT_STATE_IGNORE THEN c
    ELSE IF c.state = CLIENT_STATE_WAIT_VERSION_RESPONSE
    THEN handle_version_response(c, msg)
    ELSE IF c.state = CLIENT_STATE_WAIT_AUTH_RESPONSE
    THEN handle_auth_response(c, msg)
    ELSE IF c.state = CLIENT_STATE_BUILDING THEN handle_build_message(c, msg)
    ELSE Client_handle_protocol_violation(c)

remote_build_unguarded(c, p, zip, only, push) ==
    Client_sendString([c EXCEPT !.state = CLIENT_STATE_BUILDING,
                                !.build_d = "pending", !.value = None,
                                !.pc = "read", !.fin = zip, !.call = "running",
                                !.exitcodes = None, !.zip = zip, !.base = Len(c.sent),
                                !.nbuilds = @ + 1],
                      json_dumps(BuildCmd(p, only, push)))

\* remote_build up to the first read of send_file (client.py:162-194,
\* 206-207).  Before connectionMade self.state does not exist.
remote_build(c, p, zip, only, push) ==
    IF c.state = CLIENT_STATE_UNSET THEN [c EXCEPT !.call = "AttributeError"]
    ELSE IF c.state # CLIENT_STATE_READY THEN [c EXCEPT !.call = "RuntimeError"]
    ELSE Client_sendString([c EXCEPT !.state = CLIENT_STATE_BUILDING,
                                     !.build_d = "pending", !.value = None,
                                     !.pc = "read", !.fin = zip,
                                     !.call = "running", !.exitcodes = None,
                                     !.zip = zip, !.base = Len(c.sent),
                                     !.nbuilds = @ + 1],
                           json_dumps(BuildCmd(p, only, push)))

send_file_whole(c) ==
    IF c.fin # <<>>
    THEN Client_sendString([c EXCEPT !.fin = <<>>],
                           <<MESSAGE_PREFIX_CONTINUE>> \o c.fin)
    ELSE LET c1 == Client_sendString([c EXCEPT !.pc = "wait"],
                                     <<MESSAGE_PREFIX_END>>)
         IN  IF c1.build_d = "fired" THEN remote_build_returns(c1) ELSE c1

\* send_file after a read returned (client.py:206-212); after the last
\* frame remote_build goes on to yield self.build_d (client.py:195)
send_file(c) ==
    LET n == IF Len(c.fin) < READ_CHUNK_SIZE THEN Len(c.fin) ELSE READ_CHUNK_SIZE
        data == SubSeq(c.fin, 1, n)
        c1 == Client_sendString([c EXCEPT !.pc = "wait"], <<MESSAGE_PREFIX_END>>)
    IN  IF data # <<>>
        THEN Client_sendString([c EXCEPT !.fin = Slice(@, n)],
                               <<MESSAGE_PREFIX_CONTINUE>> \o data)
        ELSE IF c1.build_d = "fired" THEN remote_build_returns(c1) ELSE c1

\* the message a msg frame carries for handle_build_message
MessageOf(msg) ==
    LET parsed == json_loads(msg)
    IN  IF parsed.ok /\ parsed.value.type = StrMsg
        THEN <<IF parsed.value.message = Missing THEN NoBody
               ELSE parsed.value.message>>
        ELSE <<>>

\* the client's framing layer delivers msg: stringReceived(msg)
Client_Deliver(c, msg) ==
    [Client_Settle(Client_stringReceived(c, msg)) EXCEPT
        !.tick = 1 - @, !.frame = msg,
        !.arrived = IF c.state = CLIENT_STATE_BUILDING
                    THEN @ \o MessageOf(msg) ELSE @]

\* the builds _run_remote_build asks for, and the zip files create_zip writes
BuildCalls ==
    { <<P1, OnlyNull, JFalse>>, <<P2, OnlyNull, JFalse>>,
      <<P2, OnlyList(<<NameAB>>), JFalse>>, <<P1, OnlyNull, JTrue>> }
ZipFiles == {<<80>>, <<80, 75>>}

NoProject == [name |-> None, images |-> <<>>]

\* connectionMade (server.py:27-34), for each password of the factory
ServerInit ==
    /\ password \in ServerPasswords
    /\ state = STATE_WAIT_VERSION
    /\ challenge = None
    /\ project = NoProject
    /\ outf = NoFile
    /\ recv_d = "none"
    /\ srare = STATE_WAIT_VERSION
    /\ gen = NoGen
    /\ transport = "open"
    /\ sent = <<>>
    /\ dirs = {}
    /\ proc = NoProc
    /\ zipin = None
    /\ violated = <<>>
    /\ tick = 0
    /\ inframe = None
    /\ inkind = "none"
    /\ payloads = <<>>
    /\ mark = 0
    /\ emitted = <<>>
    /\ results = <<>>

\* a server connection whose peer sends any frame of FramePool
Init ==
    /\ ServerInit
    /\ client = NoClient
    /\ sread = 0
    /\ cread = 0
    /\ co = NoDispatch
    /\ link = NoLink
    /\ twin = NoTwin

\* a server connection and the client connected to it
PairInit ==
    /\ ServerInit
    /\ client \in {NewClient(pw) : pw \in ClientPasswords}
    /\ sread = 0
    /\ cread = 0
    /\ co = NoDispatch
    /\ link = NoLink
    /\ twin = NoTwin

\* the shape of a frame as a file-data frame
FrameKind(msg) ==
    IF msg = <<>> THEN "empty"
    ELSE IF msg[1] = 0 THEN "continue"
    ELSE IF msg[1] = 1 THEN "end"
    ELSE "other"

\* the server's framing layer delivers msg: stringReceived(msg).  forget: the
\* frames sent before an accepted command are dropped from the history
Deliver(msg, forget) ==
    /\ transport # "lost"
    /\ \E rnd \in IF state = STATE_WAIT_VERSION
                  THEN get_random_bytes(AUTH_SEED_LENGTH) ELSE {None},
          zipok \in IF state = STATE_FILE_RECEIVE THEN BOOLEAN ELSE {TRUE} :
          LET w == stringReceived(World, msg, rnd, zipok)
              accepted == state = STATE_READY /\ w.state = STATE_FILE_RECEIVE
              isdata == /\ state = STATE_FILE_RECEIVE
                        /\ recv_d = "pending"
                        /\ msg # <<>>
                        /\ msg[1] \in {MESSAGE_PREFIX_CONTINUE, MESSAGE_PREFIX_END}
          IN  /\ Len(w.outf.data) <= MaxData
              /\ Becomes([w EXCEPT !.sent = IF accepted /\ forget THEN <<>> ELSE @])
              /\ tick' = 1 - tick
              /\ inframe' = IF state \in {STATE_WAIT_VERSION, STATE_AUTH}
                            THEN msg ELSE None
              /\ inkind' = FrameKind(msg)
              /\ payloads' = IF accepted THEN <<>>
                             ELSE IF isdata THEN payloads \o Slice(msg, 1)
                             ELSE payloads
              /\ mark' = IF accepted THEN (IF forget THEN 0 ELSE Len(sent))
                         ELSE IF recv_d = "pending" /\ w.recv_d = "fired"
                         THEN Len(sent) ELSE mark
              /\ emitted' = IF accepted THEN <<>> ELSE emitted
              /\ results' = IF accepted THEN <<>> ELSE results

\* a peer sends any frame of FramePool
Receive ==
    /\ \E msg \in FramePool : Deliver(msg, TRUE)
    /\ UNCHANGED <<client, sread, cread, co, link, twin>>

\* the running subprocess writes a chunk to stdout or stderr
ProcOutput ==
    /\ proc.kind # "none"
    /\ Len(emitted) < MaxChunks
    /\ LET data == Chunk(Len(emitted) + 1)
       IN  /\ Becomes(on_data_received([World EXCEPT !.proc.nout = @ + 1], data))
           /\ emitted' = Append(emitted, data)
    /\ UNCHANGED <<tick, inframe, inkind, payloads, mark, results>>
    /\ UNCHANGED <<client, sread, cread, co, link, twin>>

\* the running subprocess ends: processEnded(status)
ProcExit ==
    /\ proc.kind # "none"
    /\ \E status \in Statuses :
          /\ Becomes(processEnded(World, status))
          /\ results' =
                IF status.kind # "other"
                   /\ (proc.kind = "build"
                       \/ (proc.kind = "preexec" /\ status.exitCode # 0))
                THEN Append(results, [image |-> proc.image, code |-> status.exitCode])
                ELSE results
    /\ UNCHANGED <<tick, inframe, inkind, payloads, mark, emitted>>
    /\ UNCHANGED <<client, sread, cread, co, link, twin>>

Next == Receive \/ ProcOutput \/ ProcExit

Spec == Init /\ [][Next]_vars

(***************************************************************************)
(* The client connected to the server.                                     *)
(***************************************************************************)
\* the server receives the next frame of the client
ServerReceives ==
    /\ client.transport # "lost"
    /\ sread < Len(client.sent)
    /\ Deliver(client.sent[sread + 1], FALSE)
    /\ sread' = sread + 1
    /\ UNCHANGED <<client, cread, co, link, twin>>

\* the client receives the next frame of the server
ClientReceives ==
    /\ client.transport # "lost"
    /\ transport # "lost"
    /\ cread < Len(sent)
    /\ client' = Client_Deliver(client, sent[cread + 1])
    /\ cread' = cread + 1
    /\ UNCHANGED <<svars, sread, co, link, twin>>

\* _run_remote_build (project.py:405-431) once the readiness Deferred fired:
\* it zips the project and calls remote_build
ClientRemoteBuild ==
    /\ client.d = "ready"
    /\ client.pc = "none"
    /\ \E call \in BuildCalls, zip \in ZipFiles :
          client' = [remote_build(client, call[1], zip, call[2], call[3])
                        EXCEPT !.calltick = 1 - @]
    /\ UNCHANGED <<svars, sread, cread, co, link, twin>>

\* a read of the zip file returns to send_file
ClientSendFile ==
    /\ client.pc = "read"
    /\ client' = send_file(client)
    /\ UNCHANGED <<svars, sread, cread, co, link, twin>>

\* the server's end of the connection goes: its close has flushed the frames
\* it sent, or the client's end is gone
ServerConnectionLost ==
    /\ transport # "lost"
    /\ \/ transport = "closing" /\ cread = Len(sent)
       \/ client.transport = "lost"
    /\ transport' = "lost"
    /\ UNCHANGED <<password, state, challenge, project, outf, recv_d, srare, gen,
                   sent, dirs, proc, zipin, violated, tick, inframe, inkind,
                   payloads, mark, emitted, results, client, sread, cread, co, link, twin>>

\* the client's end of the connection goes
ClientConnectionLost ==
    /\ client.transport # "lost"
    /\ \/ client.transport = "closing" /\ sread = Len(client.sent)
       \/ transport = "lost"
    /\ client' = [client EXCEPT !.transport = "lost"]
    /\ UNCHANGED <<svars, sread, cread, co, link, twin>>

PairNext ==
    \/ ServerReceives
    \/ ClientReceives
    \/ ClientRemoteBuild
    \/ ClientSendFile
    \/ ProcOutput
    \/ ProcExit
    \/ ServerConnectionLost
    \/ ClientConnectionLost

SpecPair == PairInit /\ [][PairNext]_vars

(***************************************************************************)
(* The client alone: its peer may send any frame of ServerFrames, its      *)
(* caller may call remote_build at any time, the connection may fail.      *)
(***************************************************************************)
MaxBuilds == 1

CallZipFiles == {<<>>, <<80, 75>>}
ClientBuildCalls ==
    {<<P1, OnlyNull, JFalse>>, <<P2, OnlyList(<<NameAB>>), JTrue>>}

ServerFrames ==
    {ReplyO, ReplyE, ReplyF, PrefixA, PrefixA \o [i \in 1..AUTH_SEED_LENGTH |-> 7],
     <<120>>, json_dumps(MsgObj(Chunk(1))), json_dumps(FinishObj(<<0, 1>>))}
        \cup {json_dumps(d) : d \in OddReplyObjs}

ClientInit ==
    /\ ServerInit
    /\ password = None
    /\ client \in {UnconnectedClient(pw) : pw \in {None, PW}}
    /\ sread = 0
    /\ cread = 0
    /\ co = NoDispatch
    /\ link = NoLink
    /\ twin = NoTwin

\* the connection is established: connectionMade
ClientConnectionMade ==
    /\ client.transport = "connecting"
    /\ client' = connectionMade(client)
    /\ UNCHANGED <<svars, sread, cread, co, link, twin>>

\* the connection cannot be established: the Deferred of connectProtocol
\* fails, and _run_single_build (project.py:296) does not read it
ClientConnectFails ==
    /\ client.transport = "connecting"
    /\ client' = [client EXCEPT !.transport = "lost"]
    /\ UNCHANGED <<svars, sread, cread, co, link, twin>>

\* the peer sends a frame
ClientGets ==
    /\ client.transport \in {"open", "closing"}
    /\ \E msg \in ServerFrames :
          /\ client' = Client_Deliver(client, msg)
          /\ Len(client'.out) <= MaxChunks
    /\ UNCHANGED <<svars, sread, cread, co, link, twin>>

\* the caller calls remote_build
ClientCalls ==
    /\ client.state = CLIENT_STATE_READY => client.nbuilds < MaxBuilds
    /\ \E call \in IF client.state = CLIENT_STATE_READY THEN ClientBuildCalls
                     ELSE {<<P1, OnlyNull, JFalse>>},
          zip \in IF client.state = CLIENT_STATE_READY THEN CallZipFiles
                  ELSE {<<>>} :
          client' = [remote_build(client, call[1], zip, call[2], call[3])
                        EXCEPT !.calltick = 1 - @]
    /\ UNCHANGED <<svars, sread, cread, co, link, twin>>

\* the connection is closed by the peer or the network: the protocol has no
\* connectionLost of its own
ClientDropped ==
    /\ client.transport \in {"open", "closing"}
    /\ client' = [client EXCEPT !.transport = "lost"]
    /\ UNCHANGED <<svars, sread, cread, co, link, twin>>

ClientNext ==
    \/ ClientConnectionMade
    \/ ClientConnectFails
    \/ ClientGets
    \/ ClientCalls
    \/ ClientSendFile
    \/ ClientDropped

SpecClient == ClientInit /\ [][ClientNext]_vars

(***************************************************************************)
(* remote_build and send_file on zip files of up to two chunks and a byte. *)
(***************************************************************************)
\* a file of n bytes
ZipOfSize(n) == [i \in 1..n |-> i % 256]
SendZipSizes ==
    {0, 1, READ_CHUNK_SIZE - 1, READ_CHUNK_SIZE, READ_CHUNK_SIZE + 1,
     2 * READ_CHUNK_SIZE, 2 * READ_CHUNK_SIZE + 1}

\* a client that is ready: the server answered "O" to its version frame
SendInit ==
    /\ ServerInit
    /\ password = None
    /\ client \in {handle_ready(NewClient(pw)) : pw \in {None, PW}}
    /\ sread = 0
    /\ cread = 0
    /\ co = NoDispatch
    /\ link = NoLink
    /\ twin = NoTwin

\* the caller calls remote_build with one of the files
SendCalls ==
    /\ client.nbuilds < MaxBuilds
    /\ \E call \in BuildCalls, n \in SendZipSizes :
          client' = [remote_build(client, call[1], ZipOfSize(n), call[2], call[3])
                        EXCEPT !.calltick = 1 - @]
    /\ UNCHANGED <<svars, sread, cread, co, link, twin>>

SendNext == SendCalls \/ ClientSendFile

SpecSend == SendInit /\ [][SendNext]_vars

(***************************************************************************)
(* Properties of the server connection.                                    *)
(***************************************************************************)
\* this step delivers a frame
Delivered == tick' # tick

\* the orchestrator runs: the terminator frame was received, the finish
\* frame is not sent
Building == gen.pc \in {"preexec", "build", "push"}

\* C1: in WAIT_VERSION the first frame decides: any frame but "0.2" is
\* answered by the one frame "E", IGNORE and a closed connection; "0.2" by "O"
\* and READY without a password, and with one by the single frame "A" and
\* the 16 challenge bytes, and AUTH.
C1_VersionDecides ==
    [][ (state = STATE_WAIT_VERSION /\ Delivered) =>
           IF inframe' # COM_VERSION
           THEN /\ sent' = Append(sent, ReplyE)
                /\ state' = STATE_IGNORE
                /\ transport = "open" /\ transport' = "closing"
           ELSE IF password = None
           THEN /\ sent' = Append(sent, ReplyO)
                /\ state' = STATE_READY
                /\ transport' = "open"
           ELSE /\ challenge' # None
                /\ Len(challenge') = AUTH_SEED_LENGTH
                /\ sent' = Append(sent, PrefixA \o challenge')
                /\ Len(sent'[Len(sent')]) = 1 + AUTH_SEED_LENGTH
                /\ state' = STATE_AUTH
                /\ transport' = "open" ]_vars

C1_Witness ==
    /\ state = STATE_AUTH
    /\ inframe = COM_VERSION
    /\ sent = <<PrefixA \o challenge>>

\* C2: in AUTH the server answers "O" and enters READY exactly when the
\* frame is SHA256(challenge || password); every other frame, so the digest
\* of another challenge or of another password and a digest with a byte
\* changed, is answered by "F", IGNORE and a closed connection.
C2_AuthDigestOnly ==
    [][ (state = STATE_AUTH /\ Delivered) =>
           LET accept == /\ sent' = Append(sent, ReplyO)
                         /\ state' = STATE_READY
                         /\ transport' = "open"
               reject == /\ sent' = Append(sent, ReplyF)
                         /\ state' = STATE_IGNORE
                         /\ transport' = "closing"
               perturbed ==
                   \/ inframe' \in BentDigests
                   \/ \E c \in get_random_bytes(AUTH_SEED_LENGTH), p \in {PW, PX} :
                         /\ <<c, p>> # <<challenge, password>>
                         /\ inframe' = sha256(c \o p)
           IN  /\ (inframe' = sha256(challenge \o password)) => accept
               /\ (inframe' # sha256(challenge \o password)) => reject
               /\ perturbed => reject ]_vars

C2_Witness ==
    /\ state = STATE_READY
    /\ password # None
    /\ inframe = sha256(challenge \o password)
    /\ sent = <<PrefixA \o challenge, ReplyO>>

\* a frame "A..." of the server, a digest frame of the client
IsChallengeFrame(f) == Len(f) >= 1 /\ f[1] = PrefixA[1]
IsDigestFrame(f) == f \in Digests

\* C3: when the server has no password, the client, whatever its password,
\* is ready as soon as it has received the answer to its version frame; the
\* server sends no challenge frame and the client no digest frame.  When the
\* server has a password, a client is ready only after the server sent the
\* challenge, the client answered it with the digest of challenge and
\* password, and the server answered "O".
C3_NoPasswordNoRoundTrip ==
    /\ password = None =>
          /\ \A i \in 1..Len(sent) : ~IsChallengeFrame(sent[i])
          /\ \A i \in 1..Len(client.sent) : ~IsDigestFrame(client.sent[i])
          /\ sread >= 1 => sent[1] = ReplyO /\ state # STATE_AUTH
          /\ cread >= 1 =>
                /\ client.d = "ready"
                /\ client.state \in {CLIENT_STATE_READY, CLIENT_STATE_BUILDING}
    /\ (password # None /\ (client.d = "ready"
                            \/ client.state \in {CLIENT_STATE_READY,
                                                 CLIENT_STATE_BUILDING})) =>
          /\ sread >= 2 /\ cread >= 2
          /\ sent[1] = PrefixA \o challenge
          /\ client.sent[2] = sha256(challenge \o password)
          /\ sent[2] = ReplyO

C3_Witness ==
    /\ password = None
    /\ client.password = PX
    /\ client.state = CLIENT_STATE_READY
    /\ client.d = "ready"
    /\ client.sent = <<COM_VERSION>>
    /\ sent = <<ReplyO>>

\* C4 (as claimed): a challenge received by a client without a password
\* fails the readiness Deferred with "password required" and closes the
\* connection; an "F" received in answer to the digest fails it with
\* "invalid password" and closes the connection, and the server answers
\* "F" to the digest of every client password that is not its own.
C4_AuthErrorsFailAndClose ==
    /\ (client.password = None /\ cread >= 1 /\ IsChallengeFrame(sent[1])) =>
          /\ client.d = "PasswordRequired"
          /\ client.transport # "open"
    /\ (client.password # None /\ cread >= 2 /\ sent[2] = ReplyF) =>
          /\ client.d = "InvalidPassword"
          /\ client.transport # "open"
    /\ (password # None /\ client.password \notin {None, password} /\ sread >= 2) =>
          sent[2] = ReplyF

\* C5 (as claimed): after a protocol violation the connection is closed, the
\* server is in IGNORE, and a frame delivered later changes neither the
\* state nor the zip file, starts no build and is not answered.
C5_ViolationIsTerminal ==
    /\ [](violated # <<>> => state = STATE_IGNORE /\ transport # "open")
    /\ [][ (violated # <<>> /\ Delivered) =>
              /\ state' = state
              /\ outf' = outf
              /\ gen' = gen
              /\ proc' = proc
              /\ sent' = sent ]_vars

\* C6 (as claimed): a frame delivered while the orchestrator runs is a
\* protocol violation: the connection is closed, the zip file and the
\* file-receive completion are left alone.
C6_BuildingFramesViolate ==
    [][ (Building /\ Delivered) =>
           /\ transport' # "open"
           /\ outf' = outf
           /\ recv_d' = recv_d ]_vars

\* C7: the zip file handed to the orchestrator is the concatenation of the
\* payloads of the file frames in arrival order, the payload of the 0x01
\* frame included, and the orchestrator starts only once the 0x01 frame
\* has been processed.
C7_ZipIsPayloads ==
    /\ zipin # None => zipin = payloads /\ recv_d = "fired"
    /\ (Building \/ gen.pc = "done" \/ proc.kind # "none" \/ "tbp" \in dirs)
          => zipin # None /\ zipin = payloads /\ outf.st = "closed"

C7_Witness ==
    /\ proc.kind = "build"
    /\ zipin = <<80, 75>>

\* C8 (as claimed): in FILE_RECEIVE a frame that does not begin with 0x00 or
\* 0x01, the zero-length frame included, is a protocol violation: the
\* connection is closed, nothing is written, no build starts.
C8_BadPrefixOrEmptyViolates ==
    [][ (state = STATE_FILE_RECEIVE /\ Delivered /\ inkind' \in {"empty", "other"}) =>
           /\ violated' = <<STATE_FILE_RECEIVE>>
           /\ transport' # "open"
           /\ outf' = outf
           /\ gen' = gen
           /\ proc' = proc ]_vars

\* C8 (amended): in FILE_RECEIVE a frame of one byte or more that does not
\* begin with 0x00 or 0x01 is a protocol violation: the connection is closed,
\* nothing is written, no build starts.  A zero-length frame is dropped:
\* nothing is written, no build starts, and the connection stays as it is.
C8_BadPrefixViolates ==
    [][ (state = STATE_FILE_RECEIVE /\ Delivered) =>
           /\ inkind' = "other" =>
                 /\ violated' = <<STATE_FILE_RECEIVE>>
                 /\ transport' # "open"
                 /\ outf' = outf
                 /\ gen' = gen
                 /\ proc' = proc
                 /\ recv_d' = recv_d
           /\ inkind' = "empty" =>
                 UNCHANGED <<state, outf, gen, proc, recv_d, transport, sent,
                             violated, dirs>> ]_vars

C8_Witness ==
    /\ state = STATE_FILE_RECEIVE
    /\ inkind = "other"
    /\ violated = <<STATE_FILE_RECEIVE>>
    /\ transport = "closing"
    /\ recv_d = "pending"
    /\ outf = [st |-> "open", data |-> <<80>>]

\* the msg frames of the chunks emitted so far
MsgFrames == [i \in 1..Len(emitted) |-> json_dumps(MsgObj(emitted[i]))]
\* the frames sent since the terminator frame
SentSinceEnd == SubSeq(sent, mark + 1, Len(sent))

\* C9: from the terminator frame to the return to READY the server sends
\* the chunks of the subprocesses as msg frames, in the order they were
\* emitted, then one finish frame and nothing after it; it is in READY once
\* the finish frame is sent.
C9_MsgsThenFinish ==
    /\ Building => SentSinceEnd = MsgFrames
    /\ gen.pc = "done" =>
          /\ SentSinceEnd = Append(MsgFrames, json_dumps(FinishObj(gen.exitcodes)))
          /\ state = STATE_READY
    /\ (state = STATE_READY /\ recv_d = "fired") => gen.pc = "done"

C9_Witness ==
    /\ gen.pc = "done"
    /\ emitted = <<Chunk(1), Chunk(2)>>
    /\ Len(sent) = 3

\* the images of the project that pass the only filter, in project order
RECURSIVE Attempted(_, _, _)
Attempted(images, only, i) ==
    IF i > Len(images) THEN <<>>
    ELSE IF only.t = "null" \/ name_in_only(images[i].name, only)
    THEN <<i>> \o Attempted(images, only, i + 1)
    ELSE Attempted(images, only, i + 1)

\* C10: the exit codes of the finish frame have one entry for each image
\* that passes the only filter, in project order; entry k is the exit code
\* of the k-th image attempted, and no other image has an entry.
C10_OneCodePerAttempt ==
    LET att == Attempted(project.images, gen.only, 1)
    IN  /\ (Building \/ gen.pc = "done") =>
              /\ gen.exitcodes = [k \in 1..Len(results) |-> results[k].code]
              /\ Len(results) <= Len(att)
              /\ \A k \in 1..Len(results) : results[k].image = att[k]
        /\ gen.pc = "done" =>
              /\ Len(gen.exitcodes) = Len(att)
              /\ sent[Len(sent)] = json_dumps(FinishObj(gen.exitcodes))

C10_Witness ==
    /\ gen.pc = "done"
    /\ gen.only.t = "list"
    /\ Len(project.images) = 2
    /\ Len(gen.exitcodes) = 1
    /\ results = <<[image |-> 2, code |-> 1]>>

\* the images the only field names: every image for null, the images whose
\* name is the string, the images whose name is an element of the list
RECURSIVE NamedBy(_, _, _)
NamedBy(images, only, i) ==
    IF i > Len(images) THEN <<>>
    ELSE IF \/ only.t = "null"
            \/ only.t = "str" /\ images[i].name = only.s
            \/ only.t = "list" /\ images[i].name \in Range(only.l)
    THEN <<i>> \o NamedBy(images, only, i + 1)
    ELSE NamedBy(images, only, i + 1)

\* C11 (as claimed): the images attempted are the images the only field
\* names, as a set of names: all for null, those whose name equals the string,
\* those whose name is in the list; a command whose only field has another
\* shape is a protocol violation and no subprocess is run for it.
C11_OnlySelectsByName ==
    LET named == NamedBy(project.images, gen.only, 1)
    IN  /\ (gen.pc # "none" /\ gen.only.t \notin {"null", "str", "list"}) =>
              /\ violated # <<>>
              /\ transport # "open"
              /\ proc.kind = "none"
        /\ proc.kind \in {"preexec", "build"} => proc.image \in Range(named)
        /\ gen.pc = "done" =>
              [k \in 1..Len(results) |-> results[k].image] = named

(***************************************************************************)
(* Properties of the client.                                               *)
(***************************************************************************)
\* this step delivers a frame to the client; this step is a remote_build call
ClientDelivered == client'.tick # client.tick
Called == client'.calltick # client.calltick

\* the frames the client sent since the last remote_build call it accepted
SentSinceCall == SubSeq(client.sent, client.base + 1, Len(client.sent))

\* C12: a remote_build call in READY moves the client to BUILDING and sends
\* one JSON command frame, then the zip file in frames of prefix 0x00 with
\* 1 to 8192 data bytes each, in file order, then one frame that is the
\* prefix 0x01 alone; the data of the 0x00 frames is the file, and nothing
\* is sent between these frames or, of the file, after the 0x01 frame.
C12_RemoteBuildFraming ==
    client.pc \in {"read", "wait"} =>
        LET tail == SentSinceCall
            n == IF client.pc = "read" THEN Len(tail) - 1 ELSE Len(tail) - 2
            data == [i \in 1..n |-> Slice(tail[i + 1], 1)]
            done == Len(client.zip) - Len(client.fin)
        IN  /\ client.state = CLIENT_STATE_BUILDING
            /\ n >= 0
            /\ tail[1] \in {json_dumps(BuildCmd(c[1], c[2], c[3])) : c \in BuildCalls}
            /\ \A i \in 1..n :
                  /\ tail[i + 1][1] = MESSAGE_PREFIX_CONTINUE
                  /\ Len(data[i]) >= 1
                  /\ Len(data[i]) <= READ_CHUNK_SIZE
            /\ n = (done + READ_CHUNK_SIZE - 1) \div READ_CHUNK_SIZE
            /\ Flatten(data) \o client.fin = client.zip
            /\ client.pc = "wait" =>
                  /\ tail[Len(tail)] = <<MESSAGE_PREFIX_END>>
                  /\ Flatten(data) = client.zip

C12_Witness ==
    /\ client.pc = "wait"
    /\ Len(client.zip) = 2 * READ_CHUNK_SIZE + 1
    /\ Len(client.sent) = client.base + 5
    /\ Len(client.sent[client.base + 2]) = 1 + READ_CHUNK_SIZE
    /\ client.sent[client.base + 4] = <<MESSAGE_PREFIX_CONTINUE, 1>>

\* C13: a remote_build call in a state other than READY fails with an error,
\* sends no frame, leaves the state of the client as it is and leaves the
\* build in progress, its completion included, as it is.
C13_OnlyCallableInReady ==
    [][ (Called /\ client.state # CLIENT_STATE_READY) =>
           /\ client'.call \in {"RuntimeError", "AttributeError"}
           /\ client'.sent = client.sent
           /\ client'.state = client.state
           /\ client'.build_d = client.build_d
           /\ client'.value = client.value
           /\ client'.pc = client.pc
           /\ client'.fin = client.fin
           /\ client'.transport = client.transport ]_vars

C13_Witness ==
    /\ client.call = "RuntimeError"
    /\ client.state = CLIENT_STATE_BUILDING
    /\ client.build_d = "pending"
    /\ client.pc = "wait"

\* the exit codes a finish frame carries, <<>> when it has none
IsFinishFrame(msg) ==
    json_loads(msg).ok /\ json_loads(msg).value.type = StrFinish
CarriedBy(msg) ==
    IF json_loads(msg).value.exitcodes = Missing THEN <<>>
    ELSE json_loads(msg).value.exitcodes

C15_MismatchReported ==
    /\ [][ (ClientDelivered /\ client.state = CLIENT_STATE_WAIT_VERSION_RESPONSE
               /\ client'.frame = ReplyE) =>
              /\ client'.d \notin {"pending", "ready"}
              /\ client'.state # CLIENT_STATE_READY
              /\ client'.sent = client.sent ]_vars
    /\ [][ client.d \notin {"pending", "ready"} =>
              /\ client'.sent = client.sent
              /\ client'.state # CLIENT_STATE_READY ]_vars

\* the client alone under weak fairness of its steps
FairSpecClient == SpecClient /\ WF_vars(ClientNext)

\* C19 (as claimed): once the connection failed or was closed, a readiness
\* Deferred or a build completion that is pending eventually fails.
C19_FailureSurfaces ==
    [](client.transport = "lost" =>
          <>(client.d # "pending" /\ client.build_d # "pending"))

(***************************************************************************)
(* The dispatch coordinator of project.py.  Project.main picks one of      *)
(* _run_single_build, _run_multi_build and _run_parallel_build; each       *)
(* starts its remote builds at once, one Deferred per build in the list    *)
(* ds, and waits for all of them.  A remote build is [host, only, d,       *)
(* value]: the index of its server in hosts (from 0), the only argument    *)
(* of its build command, the state of its Deferred and the exit codes it   *)
(* fired with.  order is the order in which the Deferreds fired.           *)
(***************************************************************************)
MaxHosts == 3

\* project "p" with three images
P3 == [name |-> <<112>>,
       images |-> <<Img(NameA, NameA, None), Img(NameAB, NameAB, None),
                    Img(NameC, NameC, None)>>]

\* the call of _run_single_build(host, only=only, noexit=True)
RemoteBuild(host, only) ==
    [host |-> host, only |-> only, d |-> "pending", value |-> <<>>]

\* _run_single_build called by main: its one remote build
run_single_build(hosts, proj, only) == <<RemoteBuild(0, only)>>

\* _run_multi_build, the loop over hosts: a build on every host
run_multi_build(hosts, proj, only) ==
    [k \in 1..hosts |-> RemoteBuild(k - 1, only)]

\* the while loop of _run_parallel_build gone wrong: i is never advanced
RECURSIVE parallel_loop_stuck(_, _, _)
parallel_loop_stuck(names, i, hosts) ==
    IF Len(names) = 0 THEN <<>>
    ELSE <<RemoteBuild(i, OnlyList(<<Head(names)>>))>>
            \o parallel_loop_stuck(Tail(names), i, hosts)

\* the while loop of _run_parallel_build: names.pop(0) goes to hosts[i]
RECURSIVE parallel_loop(_, _, _)
parallel_loop(names, i, hosts) ==
    IF Len(names) = 0 THEN <<>>
    ELSE LET name == Head(names)
             next == IF i + 1 >= hosts THEN 0 ELSE i + 1
         IN  <<RemoteBuild(i, OnlyList(<<name>>))>>
                \o parallel_loop(Tail(names), next, hosts)

\* _run_parallel_build up to gatherResults
run_parallel_build(hosts, proj, only) ==
    LET names == IF only = OnlyNull
                 THEN [k \in 1..Len(proj.images) |-> proj.images[k].name]
                 ELSE only.l
    IN  parallel_loop(names, 0, hosts)

\* Project.main, command build: the run function by the number of hosts and
\* the build mode (task.react does not return)
main(mode, hosts, proj, only) ==
    LET fn == IF hosts = 1 THEN "single" ELSE mode
    IN  [pc |-> "gather", mode |-> fn, hosts |-> hosts, project |-> proj,
         only |-> only,
         ds |-> CASE fn = "single" -> run_single_build(hosts, proj, only)
                  [] fn = "multi" -> run_multi_build(hosts, proj, only)
                  [] OTHER -> run_parallel_build(hosts, proj, only),
         order |-> <<>>, exitcodes |-> <<>>, out |-> <<>>, status |-> -1]

\* the exit codes a server answers a build command with: one for each image
\* of the project that passes only
RemoteResults(proj, only) ==
    LET n == Len(Attempted(proj.images, only, 1))
    IN  [1..n -> ExitCodes]

\* the results listed in the order the Deferreds fired
gatherResults_as_fired(c) == [k \in 1..Len(c.order) |-> c.ds[c.order[k]].value]

\* defer.gatherResults(ds): the results in the order of ds
gatherResults(c) == [k \in 1..Len(c.ds) |-> c.ds[k].value]

\* max of Python 2 on a list that is not empty: None is below every number
RECURSIVE py_max(_)
py_max(v) ==
    IF Len(v) = 1 THEN v[1]
    ELSE LET m == py_max(Tail(v))
         IN  IF v[1] = NoneInt THEN m
             ELSE IF m = NoneInt THEN v[1]
             ELSE IF v[1] > m THEN v[1] ELSE m

\* the exit status of the process after sys.exit(arg): None is success
sys_exit(arg) == IF arg = NoneInt THEN 0 ELSE arg

\* the end of the three run functions: the exit on the exit codes
exit_with(c, exitcodes) ==
    IF Len(exitcodes) = 0
    THEN [c EXCEPT !.pc = "exited", !.exitcodes = exitcodes,
                   !.out = <<"Error: no images built!">>, !.status = 1]
    ELSE [c EXCEPT !.pc = "exited", !.exitcodes = exitcodes,
                   !.out = <<"Exitcodes: ">>,
                   !.status = sys_exit(py_max(exitcodes))]

\* the projects and the only arguments main is run with
DispatchProjects == {P2, P3}
DispatchOnly == {OnlyNull, OnlyList(<<NameAB>>), OnlyList(<<NameC, NameA>>),
                 OnlyList(<<<<122>>>>)}

DispatchInit ==
    /\ ServerInit
    /\ client = NoClient
    /\ sread = 0
    /\ cread = 0
    /\ co = NoDispatch
    /\ link = NoLink
    /\ twin = NoTwin

\* Project.main is run
Main ==
    /\ co.pc = "idle"
    /\ \E mode \in {"multi", "parallel"}, hosts \in 1..MaxHosts,
          p \in DispatchProjects, only \in DispatchOnly :
          co' = main(mode, hosts, p, only)
    /\ UNCHANGED <<svars, client, sread, cread, link, twin>>

\* a remote build ends: _run_remote_build returns the exit codes of its
\* server
RemoteBuildReturns ==
    /\ co.pc = "gather"
    /\ \E k \in 1..Len(co.ds) :
          /\ co.ds[k].d = "pending"
          /\ \E v \in RemoteResults(co.project, co.ds[k].only) :
                co' = [co EXCEPT !.ds[k].d = "fired", !.ds[k].value = v,
                                 !.order = Append(@, k)]
    /\ UNCHANGED <<svars, client, sread, cread, link, twin>>

\* a remote build fails (the client raised): gatherResults fails at once and
\* task.react exits with 1
RemoteBuildFails ==
    /\ co.pc = "gather"
    /\ \E k \in 1..Len(co.ds) :
          /\ co.ds[k].d = "pending"
          /\ co' = [co EXCEPT !.ds[k].d = "failed", !.pc = "failed",
                              !.status = 1]
    /\ UNCHANGED <<svars, client, sread, cread, link, twin>>

\* every Deferred of ds has fired: the run function goes on after its yield
Gathered ==
    /\ co.pc = "gather"
    /\ \A k \in 1..Len(co.ds) : co.ds[k].d = "fired"
    /\ co' = exit_with(co, Flatten(gatherResults(co)))
    /\ UNCHANGED <<svars, client, sread, cread, link, twin>>

DispatchNext == Main \/ RemoteBuildReturns \/ RemoteBuildFails \/ Gathered

SpecDispatch == DispatchInit /\ [][DispatchNext]_vars

(***************************************************************************)
(* Properties of the dispatch coordinator.                                 *)
(***************************************************************************)
\* the effective name list of a dispatch: only if given, else every image
\* name of the project in project order
EffectiveNames(c) ==
    IF c.only = OnlyNull
    THEN [k \in 1..Len(c.project.images) |-> c.project.images[k].name]
    ELSE c.only.l

\* C16: in partition mode with N servers the i-th name of the effective
\* name list (counted from 0) is built by exactly one remote build, against
\* server i mod N and with only=[name]; there is one remote build for each
\* name and no other.
C16_PartitionRoundRobin ==
    (co.mode = "parallel" /\ co.pc # "idle") =>
        LET names == EffectiveNames(co)
        IN  /\ Len(co.ds) = Len(names)
            /\ \A i \in 1..Len(names) :
                  /\ co.ds[i].host = (i - 1) % co.hosts
                  /\ co.ds[i].only = OnlyList(<<names[i]>>)

C16_Witness ==
    /\ co.mode = "parallel"
    /\ co.hosts = 2
    /\ co.only = OnlyNull
    /\ Len(co.ds) = 3
    /\ co.ds[3].host = 0
    /\ co.ds[3].only = OnlyList(<<NameC>>)
    /\ co.pc = "exited"

\* C17: in mirror and in partition mode the remote builds run concurrently,
\* and whatever the order they end in, the collected vector is the
\* concatenation of their exit-code vectors in the order of the builds:
\* server order in mirror mode, name order in partition mode; in mirror
\* mode there is one build for each server and each has the only of the
\* caller.
C17_ConcatenationInOrder ==
    /\ co.pc = "exited" =>
          co.exitcodes = Flatten([k \in 1..Len(co.ds) |-> co.ds[k].value])
    /\ (co.mode = "multi" /\ co.pc # "idle") =>
          /\ Len(co.ds) = co.hosts
          /\ \A k \in 1..Len(co.ds) :
                co.ds[k].host = k - 1 /\ co.ds[k].only = co.only

C17_Witness ==
    /\ co.mode = "multi"
    /\ co.pc = "exited"
    /\ co.order = <<2, 1>>
    /\ co.ds[1].value = <<0, 1>>
    /\ co.ds[2].value = <<1, 0>>
    /\ co.exitcodes = <<0, 1, 1, 0>>

\* C18 (as claimed): in every mode, after all results have arrived, an
\* empty vector prints "no images built" and exits with 1, and a vector
\* that is not empty exits with its maximum: an exit code of the vector
\* that no other exceeds.
C18_ExitIsMaximum ==
    co.pc = "exited" =>
        IF co.exitcodes = <<>>
        THEN co.out = <<"Error: no images built!">> /\ co.status = 1
        ELSE /\ co.status \in Range(co.exitcodes)
             /\ \A e \in Range(co.exitcodes) : e <= co.status

(***************************************************************************)
(* The client connected to the server, where the client may go away at     *)
(* any time.  Neither protocol has a connectionLost method: the server     *)
(* does nothing when its connection is lost.                               *)
(***************************************************************************)
\* the process of the client ends or its host goes away
ClientDrops ==
    /\ client.transport # "lost"
    /\ client' = [client EXCEPT !.transport = "lost"]
    /\ UNCHANGED <<svars, sread, cread, co, link, twin>>

DropNext == PairNext \/ ClientDrops

SpecDrop == PairInit /\ [][DropNext]_vars

\* C20 (as claimed): the scratch directory of a build exists while the body
\* of the build runs, and no scratch directory exists afterward: when the
\* build has ended, well or not, and when the connection is gone and no
\* build process runs, be it after a protocol violation during the receive
\* of the file or after the client dropped the connection.
C20_ScratchDirsRemoved ==
    /\ (gen.pc = "recv" \/ Building) => "tp" \in dirs
    /\ gen.pc \in {"none", "done", "failed"} => dirs = {}
    /\ (transport = "lost" /\ proc.kind = "none") => dirs = {}

(***************************************************************************)
(* The framing of both protocols.  FBADServerProtocol and                  *)
(* FBADClientProtocol are IntNStringReceiver (twisted.protocols.basic)     *)
(* with structFormat "!I", prefixLength 4 and MAX_LENGTH                   *)
(* MAX_MESSAGE_LENGTH.  link is one direction of a connection: wire the    *)
(* bytes written and not yet read, unprocessed the receiver's buffer,      *)
(* handed the strings given to sendString, raised those sendString         *)
(* refused, delivered the strings given to stringReceived.                 *)
(***************************************************************************)
MaxFrames == 2
MESSAGE_LENGTH_PREFIX_LENGTH == 4
MAX_MESSAGE_LENGTH == 133120

(***************************************************************************)
(* The strings of this section are long, so they are written as runs: a    *)
(* string is the sequence of its runs [b, n], n times the byte b, no empty *)
(* run and no two neighbours with the same byte.                           *)
(***************************************************************************)
RECURSIVE RNorm(_)
RNorm(r) ==
    IF r = <<>> THEN <<>>
    ELSE IF r[1].n = 0 THEN RNorm(Tail(r))
    ELSE LET t == RNorm(Tail(r))
         IN  IF t # <<>> /\ t[1].b = r[1].b
             THEN <<[b |-> r[1].b, n |-> r[1].n + t[1].n]>> \o Tail(t)
             ELSE <<r[1]>> \o t
\* the string of a sequence of bytes, and n times the byte b
FromBytes(s) == RNorm([i \in 1..Len(s) |-> [b |-> s[i], n |-> 1]])
Fill(b, n) == RNorm(<<[b |-> b, n |-> n]>>)
\* len(r), r + s, r[k:], r[:k], r[i - 1]
RECURSIVE RLen(_)
RLen(r) == IF r = <<>> THEN 0 ELSE r[1].n + RLen(Tail(r))
RCat(r, s) == RNorm(r \o s)
RECURSIVE RDrop(_, _)
RDrop(r, k) ==
    IF k <= 0 \/ r = <<>> THEN r
    ELSE IF r[1].n <= k THEN RDrop(Tail(r), k - r[1].n)
    ELSE <<[b |-> r[1].b, n |-> r[1].n - k]>> \o Tail(r)
RECURSIVE RTake(_, _)
RTake(r, k) ==
    IF k <= 0 \/ r = <<>> THEN <<>>
    ELSE IF r[1].n <= k THEN RCat(<<r[1]>>, RTake(Tail(r), k - r[1].n))
    ELSE <<[b |-> r[1].b, n |-> k]>>
RECURSIVE RByte(_, _)
RByte(r, i) == IF i <= r[1].n THEN r[1].b ELSE RByte(Tail(r), i - r[1].n)

\* struct.pack("!I", n) and struct.unpack("!I", r[:4])
pack(n) ==
    FromBytes(<<(n \div 16777216) % 256, (n \div 65536) % 256,
                (n \div 256) % 256, n % 256>>)
unpack(r) ==
    ((RByte(r, 1) * 256 + RByte(r, 2)) * 256 + RByte(r, 3)) * 256 + RByte(r, 4)

\* IntNStringReceiver.sendString: StringTooLongError when the length does
\* not fit the prefix (2 ** 32 and more), else the prefix and the string
\* are written
Framing_sendString(l, string) ==
    IF RLen(string) \div 65536 >= 65536
    THEN [l EXCEPT !.handed = Append(@, string), !.raised = Append(@, string)]
    ELSE [l EXCEPT !.handed = Append(@, string),
                   !.wire = RCat(@, RCat(pack(RLen(string)), string))]

\* the loop of IntNStringReceiver.dataReceived: a length above MAX_LENGTH
\* is lengthLimitExceeded, which closes the connection; a whole string is
\* given to stringReceived
RECURSIVE Framing_parse(_)
Framing_parse(l) ==
    LET alldata == l.unprocessed
        length == unpack(alldata)
        messageEnd == MESSAGE_LENGTH_PREFIX_LENGTH + length
    IN  IF RLen(alldata) < MESSAGE_LENGTH_PREFIX_LENGTH THEN l
        ELSE IF length > MAX_MESSAGE_LENGTH
        THEN [l EXCEPT !.transport = "closing"]
        ELSE IF RLen(alldata) < messageEnd THEN l
        ELSE Framing_parse(
                [l EXCEPT !.delivered =
                              Append(@, RDrop(RTake(alldata, messageEnd),
                                              MESSAGE_LENGTH_PREFIX_LENGTH)),
                          !.unprocessed = RDrop(alldata, messageEnd)])

\* IntNStringReceiver.dataReceived(data)
dataReceived(l, data) ==
    Framing_parse([l EXCEPT !.unprocessed = RCat(@, data)])

\* the strings a protocol sends: short ones and ones at the limit
FrameStrings ==
    {FromBytes(<<>>), FromBytes(<<79>>), FromBytes(<<0, 80>>),
     Fill(80, MAX_MESSAGE_LENGTH), Fill(80, MAX_MESSAGE_LENGTH + 1)}

FrameInit ==
    /\ ServerInit
    /\ client = NoClient
    /\ sread = 0
    /\ cread = 0
    /\ co = NoDispatch
    /\ link = NoLink
    /\ twin = NoTwin

\* a protocol calls sendString
FrameSend ==
    /\ Len(link.handed) < MaxFrames
    /\ \E string \in FrameStrings : link' = Framing_sendString(link, string)
    /\ UNCHANGED <<svars, client, sread, cread, co, twin>>

\* the receiver reads the next bytes of the connection: all there is, or,
\* while it has not more than a prefix, one byte or a prefix and a byte
FrameArrives ==
    /\ link.transport = "open"
    /\ \E n \in {1, MESSAGE_LENGTH_PREFIX_LENGTH + 1, RLen(link.wire)} :
          /\ 1 <= n /\ n <= RLen(link.wire)
          /\ n = RLen(link.wire)
                \/ RLen(link.unprocessed) <= MESSAGE_LENGTH_PREFIX_LENGTH
          /\ link' = dataReceived([link EXCEPT !.wire = RDrop(@, n)],
                                  RTake(link.wire, n))
    /\ UNCHANGED <<svars, client, sread, cread, co, twin>>

FrameNext == FrameSend \/ FrameArrives

SpecFrame == FrameInit /\ [][FrameNext]_vars

\* s is the beginning of t
IsPrefix(s, t) == Len(s) <= Len(t) /\ s = SubSeq(t, 1, Len(s))

\* C21 (as claimed): the strings delivered are strings that were sent,
\* whole, once and in the order sent; none is longer than
\* MAX_MESSAGE_LENGTH; sendString refuses a longer string and writes
\* nothing for it; a receiver that reads a length prefix above the maximum
\* closes the connection.
C21_FramingRoundTrip ==
    /\ IsPrefix(link.delivered, link.handed)
    /\ \A k \in 1..Len(link.delivered) :
          RLen(link.delivered[k]) <= MAX_MESSAGE_LENGTH
    /\ \A k \in 1..Len(link.handed) :
          RLen(link.handed[k]) > MAX_MESSAGE_LENGTH =>
              link.handed[k] \in Range(link.raised)
    /\ (RLen(link.unprocessed) >= MESSAGE_LENGTH_PREFIX_LENGTH
          /\ unpack(link.unprocessed) > MAX_MESSAGE_LENGTH) =>
              link.transport = "closing"

(***************************************************************************)
(* Two runs of each protocol.  a and b are two connections of one server   *)
(* factory (one password) whose peers send the same frames and whose       *)
(* build subprocesses end at the same points; each connection draws its    *)
(* own challenge.  ca and cb are two clients with one password that        *)
(* receive the same frames and whose callers make the same calls.          *)
(***************************************************************************)
MaxTwinSteps == 5

\* the frames sent to both server connections
TwinFrames ==
    {COM_VERSION, OldVersion} \cup Digests
        \cup {json_dumps(BuildCmd(P1, OnlyNull, JFalse)),
              <<MESSAGE_PREFIX_CONTINUE, 80>>, <<MESSAGE_PREFIX_END, 75>>}

\* an exception that leaves a handler of the server drops the connection
TwinSettle(w) ==
    IF w.raised THEN [w EXCEPT !.raised = FALSE, !.transport = "lost"] ELSE w

\* stringReceived on one connection; a connection that is gone receives
\* nothing
TwinDeliver(w, msg, rnd, zipok) ==
    IF w.transport = "lost" THEN w
    ELSE TwinSettle(stringReceived(w, msg, rnd, zipok))

\* processEnded on one connection, when a subprocess runs there
TwinEnded(w, status) ==
    IF w.proc.kind = "none" THEN w ELSE TwinSettle(processEnded(w, status))

\* a frame for one client; a client whose connection is gone receives
\* nothing
TwinClientDeliver(c, msg) ==
    IF c.transport = "lost" THEN c ELSE Client_Deliver(c, msg)

TwinInit ==
    /\ ServerInit
    /\ client = NoClient
    /\ sread = 0
    /\ cread = 0
    /\ co = NoDispatch
    /\ link = NoLink
    /\ \E pw \in {None, PW} :
          twin = [a |-> World, b |-> World, ca |-> NewClient(pw),
                  cb |-> NewClient(pw), n |-> 0]

\* the peers send the same frame to both server connections
TwinReceive ==
    /\ twin.n < MaxTwinSteps
    /\ \E msg \in TwinFrames,
          zipok \in IF STATE_FILE_RECEIVE \in {twin.a.state, twin.b.state}
                    THEN BOOLEAN ELSE {TRUE},
          rnda \in IF twin.a.state = STATE_WAIT_VERSION
                   THEN get_random_bytes(AUTH_SEED_LENGTH) ELSE {None},
          rndb \in IF twin.b.state = STATE_WAIT_VERSION
                   THEN get_random_bytes(AUTH_SEED_LENGTH) ELSE {None} :
          twin' = [twin EXCEPT !.a = TwinDeliver(@, msg, rnda, zipok),
                               !.b = TwinDeliver(@, msg, rndb, zipok),
                               !.n = @ + 1]
    /\ UNCHANGED <<svars, client, sread, cread, co, link>>

\* the running subprocesses end with the same status
TwinProcExit ==
    /\ twin.n < MaxTwinSteps
    /\ twin.a.proc.kind # "none" \/ twin.b.proc.kind # "none"
    /\ \E status \in Statuses :
          twin' = [twin EXCEPT !.a = TwinEnded(@, status),
                               !.b = TwinEnded(@, status), !.n = @ + 1]
    /\ UNCHANGED <<svars, client, sread, cread, co, link>>

\* the servers send the same frame to both clients
TwinClientGets ==
    /\ twin.n < MaxTwinSteps
    /\ \E msg \in ServerFrames :
          twin' = [twin EXCEPT !.ca = TwinClientDeliver(@, msg),
                               !.cb = TwinClientDeliver(@, msg), !.n = @ + 1]
    /\ UNCHANGED <<svars, client, sread, cread, co, link>>

\* the callers of both clients call remote_build
TwinClientCalls ==
    /\ twin.n < MaxTwinSteps
    /\ twin.ca.pc \in {"none", "done"} /\ twin.cb.pc \in {"none", "done"}
    /\ twin' = [twin EXCEPT
                  !.ca = remote_build(@, P1, <<80, 75>>, OnlyNull, JFalse),
                  !.cb = remote_build(@, P1, <<80, 75>>, OnlyNull, JFalse),
                  !.n = @ + 1]
    /\ UNCHANGED <<svars, client, sread, cread, co, link>>

\* a read of the zip file returns to send_file in both clients
TwinClientSendFile ==
    /\ twin.n < MaxTwinSteps
    /\ twin.ca.pc = "read" \/ twin.cb.pc = "read"
    /\ twin' = [twin EXCEPT
                  !.ca = IF @.pc = "read" THEN send_file(@) ELSE @,
                  !.cb = IF @.pc = "read" THEN send_file(@) ELSE @,
                  !.n = @ + 1]
    /\ UNCHANGED <<svars, client, sread, cread, co, link>>

TwinNext ==
    \/ TwinReceive
    \/ TwinProcExit
    \/ TwinClientGets
    \/ TwinClientCalls
    \/ TwinClientSendFile

SpecTwin == TwinInit /\ [][TwinNext]_vars

ProcEnded ==
    /\ proc.kind # "none"
    /\ proc'.kind # proc.kind \/ proc'.image # proc.image

\* C23: docker build of an image with a preexec command is started only by
\* the end of that image's preexec command, and only when that ended with
\* 0.  When the preexec command ends with another code, the code is
\* appended to the exit codes as the entry of the image, docker build is
\* not run for the image and the loop goes on with the next image.
C23_PreexecGuardsBuild ==
    /\ [][ (proc'.kind = "build"
               /\ (proc.kind # "build" \/ proc.image # proc'.image)
               /\ project'.images[proc'.image].preexec_command # None) =>
              /\ proc.kind = "preexec"
              /\ proc.image = proc'.image
              /\ results' = results
              /\ gen'.exitcodes = gen.exitcodes ]_vars
    /\ [][ (ProcEnded /\ proc.kind = "preexec" /\ results' # results) =>
              LET code == results'[Len(results')].code
                  next == Attempted(project.images, gen.only, proc.image + 1)
              IN  /\ code # 0
                  /\ results'[Len(results')].image = proc.image
                  /\ gen'.exitcodes = Append(gen.exitcodes, code)
                  /\ ~(proc'.kind = "build" /\ proc'.image = proc.image)
                  /\ IF next = <<>> THEN proc'.kind \in {"none", "push"}
                     ELSE /\ proc'.image = next[1]
                          /\ proc'.kind \in {"preexec", "build"} ]_vars

C23_Witness ==
    /\ project = P2
    /\ gen.pc = "done"
    /\ results = <<[image |-> 1, code |-> 1], [image |-> 2, code |-> 0]>>
    /\ gen.exitcodes = <<1, 0>>

\* a server connection whose peer sends the version, the digest of the
\* password, build commands with and without push, and file frames
PushFramePool ==
    {COM_VERSION} \cup {sha256(c \o PW) : c \in get_random_bytes(AUTH_SEED_LENGTH)}
        \cup {json_dumps(d) : d \in PushCmdObjs}
        \cup {<<MESSAGE_PREFIX_CONTINUE, 80>>, <<MESSAGE_PREFIX_END>>}

ReceivePush ==
    /\ \E msg \in PushFramePool : Deliver(msg, TRUE)
    /\ UNCHANGED <<client, sread, cread, co, link, twin>>

PushNext == ReceivePush \/ ProcOutput \/ ProcExit

SpecPush == Init /\ [][PushNext]_vars

\* a docker push is spawned in this step
PushStarts ==
    /\ proc'.kind = "push"
    /\ proc.kind # "push" \/ proc.image # proc'.image \/ proc'.nout < proc.nout

\* the finish frame of the build is handed to sendString in this step
FinishSent ==
    /\ Len(sent') = Len(sent) + 1
    /\ gen.pc \in {"preexec", "build", "push", "recv"}
    /\ gen'.pc = "done"

\* C24: with push set, docker push runs after all the builds and before the
\* finish frame, once for each image that passes only, in image order; the
\* exit codes of the finish frame are those of the builds, the pushes add
\* none; without push no docker push runs.
C24_PushOncePerImage ==
    /\ [][ PushStarts =>
              LET att == Attempted(project'.images, gen'.only, 1)
              IN  /\ gen'.do_push
                  /\ sent' = sent
                  /\ Len(gen'.exitcodes) = Len(att)
                  /\ gen'.exitcodes = [k \in 1..Len(results') |-> results'[k].code]
                  /\ \E k \in 1..Len(att) :
                        /\ att[k] = proc'.image
                        /\ IF proc.kind = "push"
                           THEN /\ k > 1
                                /\ att[k - 1] = proc.image
                                /\ gen'.exitcodes = gen.exitcodes
                           ELSE /\ k = 1
                                /\ proc.kind \in {"preexec", "build"}
                                /\ proc.image = att[Len(att)] ]_vars
    /\ [][ (proc.kind = "push" /\ proc' # proc) =>
              /\ proc'.kind \in {"push", "none"}
              /\ gen'.exitcodes = gen.exitcodes
              /\ results' = results ]_vars
    /\ [][ FinishSent =>
              LET att == Attempted(project.images, gen.only, 1)
              IN  /\ sent'[Len(sent')] =
                        json_dumps(FinishObj([k \in 1..Len(results') |->
                                                 results'[k].code]))
                  /\ IF gen.do_push /\ att # <<>>
                     THEN proc.kind = "push" /\ proc.image = att[Len(att)]
                     ELSE proc.kind # "push" ]_vars
    /\ [](proc.kind = "push" => gen.do_push)

C24_Witness ==
    /\ project = P2
    /\ gen.only.t = "null"
    /\ gen.do_push
    /\ gen.pc = "done"
    /\ gen.bi = 2
    /\ results = <<[image |-> 1, code |-> 1], [image |-> 2, code |-> 0]>>
    /\ sent[Len(sent)] = json_dumps(FinishObj(<<1, 0>>))

\* C25 (as claimed): when a subprocess of an image's build has ended, the
\* build goes on with the next image or ends with the finish frame; from
\* the terminator frame on, the build is running a subprocess or has sent
\* the finish frame, and the server is READY once it has.
C25_RecoversPerImage ==
    /\ [][ (gen.pc \in {"preexec", "build"} /\ proc.kind # "none"
                /\ (proc'.kind = "none" \/ proc'.image # proc.image)) =>
              \/ gen'.pc \in {"preexec", "build", "push"} /\ proc'.kind = gen'.pc
              \/ gen'.pc = "done" ]_vars
    /\ [](recv_d = "fired" =>
              \/ gen.pc \in {"preexec", "build", "push"} /\ proc.kind = gen.pc
              \/ gen.pc = "done" /\ state = STATE_READY)

\* C26 (as claimed): a subprocess that ended resolves with an integer: 0
\* when it ended normally, its exit code otherwise, a non-zero number when
\* a signal killed it; every exit code recorded for an image and every
\* element of the exit codes of a finish frame is an integer.
C26_ExitCodesAreIntegers ==
    /\ \A k \in 1..Len(results) : results[k].code # NoneInt
    /\ \A k \in 1..Len(gen.exitcodes) : gen.exitcodes[k] # NoneInt
    /\ \A i \in 1..Len(sent) : \A v \in ExitVectors :
          sent[i] = json_dumps(FinishObj(v)) =>
              \A k \in 1..Len(v) : v[k] # NoneInt

\* a frame that is a build command: JSON with the command "build" and a
\* project that Project.loads takes
WellFormedBuild(msg) ==
    \E d \in JsonObjs :
        /\ msg = json_dumps(d)
        /\ d.command = StrBuild
        /\ d.project # Missing
        /\ Project_loads(d.project).ok

\* C27 (as claimed): in READY a frame that is not a well-formed build
\* command is a protocol violation: the connection is closed, nothing is
\* sent, no scratch directory is made and the state becomes neither
\* FILE_RECEIVE nor BUILDING.
C27_ReadyRejectsMalformed ==
    [][ \A msg \in FramePool :
            (state = STATE_READY /\ ~WellFormedBuild(msg) /\ Deliver(msg, TRUE)) =>
                /\ violated' # <<>>
                /\ transport' # "open"
                /\ sent' = sent
                /\ dirs' = dirs
                /\ state' \notin {STATE_FILE_RECEIVE, STATE_BUILDING} ]_vars

(***************************************************************************)
(* Properties of the client's handling of unexpected frames.               *)
(***************************************************************************)
\* a frame the client does not expect in state st
Unexpected(st, msg) ==
    CASE st = CLIENT_STATE_WAIT_VERSION_RESPONSE ->
            /\ msg \notin {ReplyO, ReplyE}
            /\ ~(Len(msg) >= 2 /\ msg[1] = PrefixA[1])
      [] st = CLIENT_STATE_WAIT_AUTH_RESPONSE -> msg \notin {ReplyO, ReplyF}
      [] st = CLIENT_STATE_READY -> TRUE
      [] st = CLIENT_STATE_BUILDING ->
            \/ ~json_loads(msg).ok
            \/ json_loads(msg).value.type \notin {StrMsg, StrFinish}
      [] OTHER -> FALSE

\* C28 (as claimed): a frame the client does not expect in its state closes
\* the connection and puts the client in IGNORE, which it never leaves.
C28_ClientViolationIsTerminal ==
    /\ [][ (ClientDelivered /\ Unexpected(client.state, client'.frame)) =>
              /\ client'.transport # "open"
              /\ client'.state = CLIENT_STATE_IGNORE ]_vars
    /\ [][ (client.state = CLIENT_STATE_IGNORE /\ client.transport # "connecting") =>
              client'.state = CLIENT_STATE_IGNORE ]_vars

(***************************************************************************)
(* No build before authentication.                                         *)
(***************************************************************************)
Unauthenticated == state \in {STATE_WAIT_VERSION, STATE_AUTH, STATE_IGNORE}

\* C29: the server leaves WAIT_VERSION for AUTH or READY only on the exact
\* version frame, and AUTH for READY only on SHA256(challenge || password);
\* before that it has no scratch directory, no subprocess and no build, and
\* is in neither FILE_RECEIVE nor BUILDING.  A frame delivered in AUTH ends
\* AUTH, which is never entered again, and IGNORE is never left.
C29_NoBuildBeforeAuth ==
    /\ [](Unauthenticated =>
              /\ dirs = {}
              /\ proc.kind = "none"
              /\ gen = NoGen
              /\ outf = NoFile
              /\ recv_d = "none")
    /\ [][ (Unauthenticated /\ ~Unauthenticated') =>
              /\ state' = STATE_READY
              /\ Delivered
              /\ \/ /\ state = STATE_WAIT_VERSION
                    /\ password = None
                    /\ inframe' = COM_VERSION
                 \/ /\ state = STATE_AUTH
                    /\ password # None
                    /\ challenge # None
                    /\ inframe' = sha256(challenge \o password) ]_vars
    /\ [][ (state' = STATE_AUTH /\ state # STATE_AUTH) =>
              /\ state = STATE_WAIT_VERSION
              /\ password # None
              /\ inframe' = COM_VERSION ]_vars
    /\ [][ (state = STATE_AUTH /\ Delivered) =>
              state' \in {STATE_READY, STATE_IGNORE} ]_vars
    /\ [][ ~Unauthenticated => ~Unauthenticated' ]_vars
    /\ [][ state = STATE_IGNORE =>
              /\ state' = STATE_IGNORE
              /\ sent' = sent
              /\ transport' = transport ]_vars

C29_Witness ==
    /\ password # None
    /\ challenge # None
    /\ state = STATE_FILE_RECEIVE
    /\ proc.kind = "build"
    /\ dirs = {"tp", "tbp"}
    /\ Len(sent) = 0

\* the readiness Deferred failed
ReadinessFailed == client.d \notin {"none", "pending", "ready"}

\* C30 (as claimed): the readiness Deferred of the client is resolved at
\* most once, no frame makes the client fire it again, and a client whose
\* readiness failed is never READY.
C30_ReadinessResolvedOnce ==
    /\ [][ client.d \notin {"none", "pending"} => client'.d = client.d ]_vars
    /\ [](ReadinessFailed =>
              client.state \notin {CLIENT_STATE_READY, CLIENT_STATE_BUILDING})

\* C31 (as claimed): the server is in FILE_RECEIVE only while the zip file
\* of the build is open and the file-receive Deferred has not fired; a
\* file-data frame is never handed to handle_file_data with the file closed
\* or the Deferred fired.
C31_FileReceiveHasOpenFile ==
    /\ [](state = STATE_FILE_RECEIVE => outf.st = "open" /\ recv_d = "pending")
    /\ [][ (state = STATE_FILE_RECEIVE /\ Delivered
                /\ inkind' \in {"continue", "end"}) =>
              /\ outf.st = "open"
              /\ recv_d = "pending"
              /\ transport' # "lost" \/ transport = "lost" ]_vars
====
